---------------------------- MODULE Spec2Model ----------------------------
(***************************************************************************)
(* A model of the langgraph_agent turn loop (graph/nodes.py,               *)
(* graph/builder.py, agents/cli.py), of the task board (models/todo.py)    *)
(* and of the todo_write tool (tools/todo.py).                             *)
(*                                                                         *)
(* Texts are sequences of tokens.  A token is a string: a single character *)
(* (" ", "\n", "a", "1" ...) or a phrase whose inner structure no code     *)
(* path looks into.  Substring tests of the code become token membership.  *)
(***************************************************************************)
EXTENDS Integers, Sequences, FiniteSets, TLC

VARIABLES
    board,      \* TODO_BOARD.items: the sequence of TodoItem on the shared board
    lastOp,     \* the last TodoManager.update call: arguments, board before, outcome
    pc,         \* where the session is: "input" (run_cli reads a line), the graph
                \* node to run next ("agent", "tools", "after_tools"), or "closed"
    cli,        \* run_cli's local `state` dict
    graph,      \* the channels of thread "main_thread", kept by the checkpointer
    base,       \* how many messages the thread held before the current input
    steps,      \* the supersteps the current app.stream call has run
    results,    \* ToolNode: the ToolMessages of the calls already executed
    nlines,     \* the input lines read so far
    outbound,   \* final_messages of the last llm.invoke call
    agentState, \* AGENT_STATE["rounds_without_todo"]
    lastError,  \* the error the CLI loop reported last ("" for none)
    lastNode,   \* the node that ran last in the current stream ("none" at its start)
    profile,    \* which inputs the session is driven with: "wide", "long", "echo",
                \* "reset", or the name of the part that is driven alone
    policy,     \* the last run of call_model's reminder checks: the counter it read,
                \* the queue before and after the checks, the spliced position
    pool,       \* ToolNode's thread pool: the handlers of the batch it runs, each
                \* with its position, and the board the batch found
    spinner,    \* call_model around llm.invoke: where it is, and the fields of the
                \* Spinner object it made (_thread, as the number of its thread)
    beats,      \* the heartbeat threads started so far, one per model call at most:
                \* where each is in run() and the _stop event of its Spinner
    term,       \* the terminal: is it a tty, does it take output, what was written
    workspace,  \* settings.workspace: the configured root, as the Path it was given
    disk,       \* storage: the directories and the regular files with their text
    fileOp,     \* the last call of a file tool: arguments, outcome, what it touched
    proc,       \* the bash tool: the call being made, the process it spawned, its outcome
    clamped     \* clamp_text: the text and limit it is called with, and what it returns

boardVars == <<board, lastOp>>
sessionVars == <<pc, cli, graph, base, steps, results, nlines, outbound, agentState,
                 lastError, lastNode, profile, policy>>
auxVars == <<pool, spinner, beats, term, workspace, disk, fileOp, proc, clamped>>
vars == <<board, lastOp, pc, cli, graph, base, steps, results, nlines, outbound,
          agentState, lastError, lastNode, profile, policy, pool, spinner, beats, term,
          workspace, disk, fileOp, proc, clamped>>

----------------------------------------------------------------------------
(* Bounds of the model *)

\* proposed lists have 0..MaxSmall items, or TodoLimit-1 .. TodoLimit+MaxOver items
MaxSmall == 3
MaxOver == 1

\* a session under the wide profile reads at most MaxLines lines and calls the
\* model while run_cli's list holds fewer than MaxHistory messages; under the
\* long and echo profiles it reads at most MaxLinesLong lines
MaxLines == 3
MaxHistory == 9
MaxLinesLong == 1

\* call_model driven alone runs on message lists of at most MaxCallMsgs messages
MaxCallMsgs == 3

\* the model calls a run of the heartbeat specification makes
MaxModelCalls == 2

----------------------------------------------------------------------------
(* Program constants *)

\* models/todo.py:76  "if len(cleaned) > 20"
TodoLimit == 20

\* agents/cli.py:49  "recursion_limit": 150
recursion_limit == 150

\* graph/nodes.py:67  "if rounds > 10"
RoundsThreshold == 10

\* config.py:37  settings.todo_statuses
todo_statuses == <<"pending", "in_progress", "completed">>

\* utils/console.py:11,16-18 and the strike-through escape of todo.py:107
\* (ESC stands for the escape character \x1b)
RESET == "ESC[0m"
TODO_PENDING_COLOR == "ESC[38;2;176;176;176m"
TODO_PROGRESS_COLOR == "ESC[38;2;120;200;255m"
TODO_COMPLETED_COLOR == "ESC[38;2;34;139;34m"
STRIKE == "ESC[9m"

----------------------------------------------------------------------------
(* Text helpers: Python's str operations on token sequences *)

NL == "\n"
Whitespace == {" ", NL, "\t"}

RECURSIVE LStrip(_)
LStrip(s) == IF s # <<>> /\ Head(s) \in Whitespace THEN LStrip(Tail(s)) ELSE s

RECURSIVE RStrip(_)
RStrip(s) ==
    IF s # <<>> /\ s[Len(s)] \in Whitespace THEN RStrip(SubSeq(s, 1, Len(s) - 1)) ELSE s

\* str.strip()
Strip(s) == RStrip(LStrip(s))

\* str.lower() on the status words the model draws from
Lower(w) ==
    CASE w = "PENDING" -> "pending"
      [] w = "In_Progress" -> "in_progress"
      [] w = "IN_PROGRESS" -> "in_progress"
      [] w = "Completed" -> "completed"
      [] w = "Q" -> "q"
      [] w = "Quit" -> "quit"
      [] w = "EXIT" -> "exit"
      [] OTHER -> w

Digit(d) == CASE d = 0 -> "0" [] d = 1 -> "1" [] d = 2 -> "2" [] d = 3 -> "3"
              [] d = 4 -> "4" [] d = 5 -> "5" [] d = 6 -> "6" [] d = 7 -> "7"
              [] d = 8 -> "8" [] d = 9 -> "9"

\* str(n) for a natural number n: its decimal digits
RECURSIVE StrNat(_)
StrNat(n) == IF n < 10 THEN <<Digit(n)>> ELSE Append(StrNat(n \div 10), Digit(n % 10))

\* "\n".join(parts)
RECURSIVE JoinNL(_)
JoinNL(parts) ==
    IF parts = <<>> THEN <<>>
    ELSE IF Len(parts) = 1 THEN parts[1]
    ELSE parts[1] \o <<NL>> \o JoinNL(Tail(parts))

\* the number of "\n" tokens of a text
RECURSIVE CountNL(_)
CountNL(s) ==
    IF s = <<>> THEN 0 ELSE (IF Head(s) = NL THEN 1 ELSE 0) + CountNL(Tail(s))

\* text.split("\n"): the lines of a text
RECURSIVE SplitNL(_)
SplitNL(s) ==
    IF \A i \in 1..Len(s) : s[i] # NL THEN <<s>>
    ELSE LET k == CHOOSE i \in 1..Len(s) : s[i] = NL /\ \A j \in 1..(i - 1) : s[j] # NL
         IN  <<SubSeq(s, 1, k - 1)>> \o SplitNL(SubSeq(s, k + 1, Len(s)))

Contains(s, tok) == \E i \in 1..Len(s) : s[i] = tok


----------------------------------------------------------------------------
(* models/todo.py: TodoManager *)

\* the "done" and "not done" marks of render (U+2612 and U+2610 in the source)
MarkDone == "[x]"
MarkOpen == "[ ]"

Statuses == {todo_statuses[i] : i \in 1..Len(todo_statuses)}

\* A raw id as a tool call can carry it: absent (None), an integer or a string.
NoId == [k |-> "none", n |-> 0, s |-> <<>>]
IntId(n) == [k |-> "int", n |-> n, s |-> <<>>]
StrId(s) == [k |-> "str", n |-> 0, s |-> s]

\* Python truthiness of raw.get("id")
Truthy(rid) ==
    CASE rid.k = "none" -> FALSE
      [] rid.k = "int" -> rid.n # 0
      [] rid.k = "str" -> rid.s # <<>>

\* todo_id = str(raw.get("id") or index + 1); p is the 1-based position, index + 1
TodoId(raw, p) ==
    IF Truthy(raw.id)
    THEN (IF raw.id.k = "int" THEN StrNat(raw.id.n) ELSE raw.id.s)
    ELSE StrNat(p)

\* a duplicate check that never fires
IsDuplicate_never(todo_id, seen_ids) == FALSE

\* if todo_id in seen_ids: raise
IsDuplicate(todo_id, seen_ids) == todo_id \in seen_ids

\* content = str(raw.get("content") or "").strip()
CleanContent(raw) == Strip(raw.content)

\* a status outside the allowed ones is taken as the first allowed one
CleanStatus_lenient(raw) ==
    IF raw.status # "" /\ Lower(raw.status) \in {todo_statuses[i] : i \in 1..Len(todo_statuses)}
    THEN Lower(raw.status) ELSE todo_statuses[1]

\* status = str(raw.get("status") or settings.todo_statuses[0]).lower()
\* (an absent or empty status is the word "")
CleanStatus(raw) == Lower(IF raw.status # "" THEN raw.status ELSE todo_statuses[1])

\* active_form = str(raw.get("activeForm") or "").strip()
CleanActiveForm(raw) == Strip(raw.activeForm)

\* a limit check that is off by one
OverLimit_offbyone(n) == n > TodoLimit + 1

\* if len(cleaned) > 20: raise
OverLimit(n) == n > TodoLimit

\* an in_progress check that is off by one
TooManyInProgress_offbyone(n) == n > 2

\* if in_progress > 1: raise
TooManyInProgress(n) == n > 1

TodoItem(id, content, status, activeForm) ==
    [id |-> id, content |-> content, status |-> status, active_form |-> activeForm]

\* The for loop of update, from position p on, with the loop's locals.  It ends
\* with err = "" at the end of the list, or with the message of the first raise.
RECURSIVE UpdateLoop(_, _, _, _, _)
UpdateLoop(elems, p, cleaned, seen_ids, in_progress) ==
    LET Raise(msg) == [err |-> msg, cleaned |-> cleaned, in_progress |-> in_progress]
    IN
    IF p > Len(elems) THEN Raise("")
    ELSE
      LET raw == elems[p] IN
      IF ~raw.dict THEN Raise("Each todo must be an object")
      ELSE
        LET todo_id == TodoId(raw, p)
            content == CleanContent(raw)
            status == CleanStatus(raw)
            active_form == CleanActiveForm(raw)
            n == IF status = "in_progress" THEN in_progress + 1 ELSE in_progress
            item == TodoItem(todo_id, content, status, active_form)
        IN
        IF IsDuplicate(todo_id, seen_ids) THEN Raise("Duplicate todo id")
        ELSE IF content = <<>> THEN Raise("Todo content cannot be empty")
        ELSE IF status \notin Statuses THEN Raise("Status must be one of")
        ELSE IF active_form = <<>> THEN Raise("Todo activeForm cannot be empty")
        ELSE IF OverLimit(Len(cleaned) + 1)
             THEN [err |-> "Todo list is limited to 20 items",
                   cleaned |-> Append(cleaned, item), in_progress |-> n]
        ELSE UpdateLoop(elems, p + 1, Append(cleaned, item),
                        seen_ids \cup {todo_id}, n)

\* _decorate_line(mark, todo)
TodoManager_decorate_line(mark, todo) ==
    LET text == <<mark, " ">> \o todo.content IN
    IF todo.status = "completed"
    THEN <<TODO_COMPLETED_COLOR, STRIKE>> \o text \o <<RESET>>
    ELSE IF todo.status = "in_progress"
    THEN <<TODO_PROGRESS_COLOR>> \o text \o <<RESET>>
    ELSE <<TODO_PENDING_COLOR>> \o text \o <<RESET>>

\* the text render returns for an empty board
NoTodosLine == <<TODO_PENDING_COLOR, MarkOpen, " ", "No todos", " yet", RESET>>

\* a render that has no placeholder for the empty board
TodoManager_render_noplaceholder(items) ==
    JoinNL([i \in 1..Len(items) |->
              TodoManager_decorate_line(
                  IF items[i].status = "completed" THEN MarkDone ELSE MarkOpen,
                  items[i])])

\* render(): the text of the board whose items are `items`
TodoManager_render(items) ==
    IF items = <<>> THEN NoTodosLine
    ELSE JoinNL([i \in 1..Len(items) |->
                   TodoManager_decorate_line(
                       IF items[i].status = "completed" THEN MarkDone ELSE MarkOpen,
                       items[i])])

\* stats()
TodoManager_stats(items) ==
    [total |-> Len(items),
     completed |-> Cardinality({i \in 1..Len(items) : items[i].status = "completed"}),
     in_progress |-> Cardinality({i \in 1..Len(items) : items[i].status = "in_progress"})]

\* a commit that keeps the previous items in front of the new ones
Commit_merge(cur, cleaned) == cur \o cleaned

\* self.items = cleaned
Commit(cur, cleaned) == cleaned

\* update(items) on a board whose items are cur.  A proposal is
\* [list |-> is it a list, elems |-> its elements].  The result: did the call
\* return (ok), the message of the ValueError if not, self.items afterwards
\* and the returned text.
TodoManager_update(items, cur) ==
    LET Raise(msg) == [ok |-> FALSE, err |-> msg, items |-> cur, view |-> <<>>] IN
    IF ~items.list THEN Raise("Todo items must be a list")
    ELSE
      LET r == UpdateLoop(items.elems, 1, <<>>, {}, 0) IN
      IF r.err # "" THEN Raise(r.err)
      ELSE IF TooManyInProgress(r.in_progress)
      THEN Raise("Only one task can be in_progress at a time")
      ELSE LET now == Commit(cur, r.cleaned)
           IN  [ok |-> TRUE, err |-> "", items |-> now, view |-> TodoManager_render(now)]

----------------------------------------------------------------------------
(* The proposed lists the board is driven with *)

Plain == [dict |-> TRUE, id |-> NoId, content |-> <<"task">>, status |-> "",
          activeForm |-> <<"doing">>]

\* One raw item of each kind
Item(kind) ==
    CASE kind = "plain" -> Plain
      [] kind = "pending" -> [Plain EXCEPT !.status = "PENDING"]
      [] kind = "prog" -> [Plain EXCEPT !.status = "in_progress"]
      [] kind = "PROG" -> [Plain EXCEPT !.status = "IN_PROGRESS", !.id = StrId(<<"b">>)]
      [] kind = "done" -> [Plain EXCEPT !.status = "completed", !.content = <<"old">>]
      [] kind = "id1" -> [Plain EXCEPT !.id = StrId(<<"1">>)]
      [] kind = "int1" -> [Plain EXCEPT !.id = IntId(1)]
      [] kind = "int0" -> [Plain EXCEPT !.id = IntId(0)]
      [] kind = "idA" -> [Plain EXCEPT !.id = StrId(<<"a">>)]
      [] kind = "id20" -> [Plain EXCEPT !.id = StrId(<<"2", "0">>)]
      [] kind = "blank" -> [Plain EXCEPT !.content = <<" ", NL>>]
      [] kind = "noform" -> [Plain EXCEPT !.activeForm = <<>>]
      [] kind = "badstatus" -> [Plain EXCEPT !.status = "done"]
      [] kind = "padded" -> [Plain EXCEPT !.content = <<" ", "task", " ">>,
                                          !.activeForm = <<"doing", NL>>]
      [] kind = "multiline" -> [Plain EXCEPT !.content = <<"step", NL, "more">>]
      [] kind = "notdict" -> [Plain EXCEPT !.dict = FALSE]

AllKinds == {"plain", "pending", "prog", "PROG", "done", "id1", "int1", "int0", "idA",
             "id20", "blank", "noform", "badstatus", "padded", "multiline", "notdict"}
PairKinds == {"prog", "PROG", "done", "id1", "idA"}
FirstKinds == {"plain", "prog", "id20"}
LastKinds == {"plain", "prog", "id1"}

\* n items: the first of kind k1, the last of kind kn, plain ones between
Build(n, k1, kn) ==
    [i \in 1..n |-> IF i = 1 THEN Item(k1) ELSE IF i = n THEN Item(kn) ELSE Plain]

AsList(elems) == [list |-> TRUE, elems |-> elems]
NotAList == [list |-> FALSE, elems |-> <<>>]

LongLengths == (3..MaxSmall) \cup ((TodoLimit - 1)..(TodoLimit + MaxOver))

BoardProposals ==
    {NotAList, AsList(<<>>)}
      \cup {AsList(<<Item(k)>>) : k \in AllKinds}
      \cup {AsList(Build(2, k[1], k[2])) : k \in PairKinds \X PairKinds}
      \cup {AsList(Build(c[1], c[2], c[3])) : c \in LongLengths \X FirstKinds \X LastKinds}

----------------------------------------------------------------------------
(* Messages (langchain_core.messages) and the graph state (models/state.py) *)

Msg(type, content, tool_calls, tool_call_id) ==
    [type |-> type, content |-> content, tool_calls |-> tool_calls,
     tool_call_id |-> tool_call_id]

\* SystemMessage(content=build_system_prompt())
SystemMessage == Msg("system", <<"SYSTEM_PROMPT">>, <<>>, 0)
HumanMessage(content) == Msg("human", content, <<>>, 0)
AIMessage(content, tool_calls) == Msg("ai", content, tool_calls, 0)
ToolMessage(content, id) == Msg("tool", content, <<>>, id)

\* one requested tool call: the tool's name, its arguments and the call id
ToolCall(name, items, id) == [name |-> name, items |-> items, id |-> id]

\* a requested call of bash: its command is a text
BashCall(command, id) == [name |-> "bash", items |-> NotAList, id |-> id, command |-> command]

\* AgentState
AgentState(messages, rounds, pending) ==
    [messages |-> messages, rounds_without_todo |-> rounds, pending_reminders |-> pending]

Last(seq) == seq[Len(seq)]

IsSystem(m) == m.type = "system"
NotSystem(m) == m.type # "system"

----------------------------------------------------------------------------
(* graph/nodes.py: should_continue *)

END == "__end__"

\* lines 25-35: is there, among the messages the scan visits (positions
\* len-1 down to max(0, len-20)+1, counted from 0), a ToolMessage whose content
\* holds "generated_test_cases"
has_exported(messages) ==
    \E j \in 1..Len(messages) :
        /\ j >= (IF Len(messages) > 20 THEN Len(messages) - 20 ELSE 0) + 2
        /\ messages[j].type = "tool"
        /\ Contains(messages[j].content, "generated_test_cases")

\* a routing that ends the turn once an export is in the recent history
should_continue_exported(messages) ==
    IF messages = <<>> THEN END
    ELSE IF has_exported(messages) THEN END
    ELSE IF Last(messages).tool_calls # <<>> THEN "tools"
    ELSE END

should_continue(messages) ==
    IF messages = <<>> THEN END
    ELSE IF Last(messages).tool_calls # <<>> THEN "tools"
    ELSE IF /\ has_exported(messages)
            /\ Last(messages).type = "ai"
            /\ Last(messages).tool_calls = <<>>
         THEN END
    ELSE IF Last(messages).type = "ai" /\ Last(messages).tool_calls = <<>> THEN END
    ELSE END

----------------------------------------------------------------------------
(* graph/builder.py: the edges of the graph *)

\* workflow.set_entry_point("agent")
EntryPoint == "agent"

\* a graph whose tools node leads straight back to the agent
EdgeFromTools_skip == "agent"

\* workflow.add_edge("tools", "after_tools")
EdgeFromTools == "after_tools"

\* a graph whose reset node ends the turn
EdgeFromAfterTools_end == "input"

\* workflow.add_edge("after_tools", "agent")
EdgeFromAfterTools == "agent"

\* add_conditional_edges("agent", should_continue, {"tools": "tools", END: END}):
\* the node that follows the agent node; END gives control back to run_cli
EdgeFromAgent(messages) ==
    IF should_continue(messages) = "tools" THEN "tools" ELSE "input"

----------------------------------------------------------------------------
(* graph/nodes.py: call_model *)

TodoReminder ==
    <<"<reminder>", "System message: complex work", " should be tracked with the Todo tool.",
      "</reminder>">>
RoundsReminder ==
    <<"<reminder>", "System notice: more than ten rounds", " passed without Todo usage.",
      "</reminder>">>

\* any("System message: complex work" in str(m.content) for m in messages)
MentionsTodoReminder(messages) ==
    \E i \in 1..Len(messages) : Contains(messages[i].content, "System message: complex work")

\* checks whose second one fires at every value of the counter
QueueReminders_always(pending, messages, rounds) ==
    LET first == IF rounds = 0 /\ ~MentionsTodoReminder(messages)
                 THEN Append(pending, TodoReminder) ELSE pending
    IN  Append(first, RoundsReminder)

\* checks whose second one fires from ten rounds on
QueueReminders_atten(pending, messages, rounds) ==
    LET first == IF rounds = 0 /\ ~MentionsTodoReminder(messages)
                 THEN Append(pending, TodoReminder) ELSE pending
    IN  IF rounds >= RoundsThreshold THEN Append(first, RoundsReminder) ELSE first

\* lines 56-75: pending_reminders after the two checks
QueueReminders(pending, messages, rounds) ==
    LET first == IF rounds = 0 /\ ~MentionsTodoReminder(messages)
                 THEN Append(pending, TodoReminder) ELSE pending
    IN  IF rounds > RoundsThreshold THEN Append(first, RoundsReminder) ELSE first

\* an outbound view that keeps every message
FinalMessages_all(messages) == messages

\* lines 77-83: the first SystemMessage and every other message that is not one
FinalMessages(messages) ==
    IF SelectSeq(messages, IsSystem) # <<>>
    THEN <<SelectSeq(messages, IsSystem)[1]>> \o SelectSeq(messages, NotSystem)
    ELSE SelectSeq(messages, NotSystem)

\* the position of the last HumanMessage of a list, 0 if it has none
LastHuman(messages) ==
    IF \E i \in 1..Len(messages) : messages[i].type = "human"
    THEN CHOOSE i \in 1..Len(messages) :
            /\ messages[i].type = "human"
            /\ \A j \in (i + 1)..Len(messages) : messages[j].type # "human"
    ELSE 0

\* a splice that puts the reminders after the content
SpliceAt_append(messages, i, pending) ==
    IF i = 0 THEN messages
    ELSE [messages EXCEPT ![i].content = @ \o <<NL, NL>> \o JoinNL(pending)]

\* lines 86-94: final_messages[i].content = reminder_text + "\n\n" + content.  The
\* message objects of final_messages are those of the list they were filtered
\* from, so the assignment changes the message at position i of that list.
SpliceAt(messages, i, pending) ==
    IF i = 0 THEN messages
    ELSE [messages EXCEPT ![i].content = JoinNL(pending) \o <<NL, NL>> \o @]

\* a call_model that clears the queue only when it found a HumanMessage
PrepareCall_keep(st) ==
    LET queued == QueueReminders(st.pending_reminders, st.messages, st.rounds_without_todo)
        doSplice == queued # <<>> /\ FinalMessages(st.messages) # <<>>
        at == IF doSplice THEN LastHuman(st.messages) ELSE 0
        stored == SpliceAt(st.messages, at, queued)
    IN  [stored |-> stored, at |-> at, queued |-> queued, final |-> FinalMessages(stored),
         pending |-> IF at # 0 THEN <<>> ELSE queued]

\* lines 52-95: call_model up to llm.invoke, on the thread's state st.  stored is
\* st's message list after the in-place splice, at is the spliced position (0 for
\* none), final is final_messages and pending what is left of pending_reminders.
PrepareCall(st) ==
    LET queued == QueueReminders(st.pending_reminders, st.messages, st.rounds_without_todo)
        doSplice == queued # <<>> /\ FinalMessages(st.messages) # <<>>
        at == IF doSplice THEN LastHuman(st.messages) ELSE 0
        stored == SpliceAt(st.messages, at, queued)
    IN  [stored |-> stored, at |-> at, queued |-> queued, final |-> FinalMessages(stored),
         pending |-> IF doSplice THEN <<>> ELSE queued]

\* a counter that moves only with a response that asks for tools
RoundsAfterCall_tools(rounds, response) ==
    IF response.tool_calls # <<>> THEN rounds + 1 ELSE rounds

\* line 119: "rounds_without_todo": rounds + 1, whatever the response
RoundsAfterCall(rounds, response) == rounds + 1

\* no run of the checks yet
NoPolicy == [done |-> FALSE, rounds |-> 0, before |-> <<>>, queued |-> <<>>, at |-> 0]

\* the record of one run of lines 52-95 on the state st: the counter read at
\* line 53, pending_reminders as read at line 54 and as it stands after line 75,
\* and the position of the spliced HumanMessage (0 for none)
PolicyRun(st, prep) ==
    [done |-> TRUE, rounds |-> st.rounds_without_todo, before |-> st.pending_reminders,
     queued |-> prep.queued, at |-> prep.at]

----------------------------------------------------------------------------
(* graph/nodes.py: after_tools *)

\* a reset that knows the status-change confirmation only
after_tools_confirmation(st) ==
    IF /\ st.messages # <<>>
       /\ Last(st.messages).type = "tool"
       /\ Contains(Last(st.messages).content, "Status updated")
    THEN 0
    ELSE st.rounds_without_todo

\* a reset that does not look at the messages
after_tools_zero(st) == 0

\* a reset that looks at every ToolMessage after the last response
after_tools_batch(st) ==
    IF \E i \in 1..Len(st.messages) :
          /\ st.messages[i].type = "tool"
          /\ \A j \in i..Len(st.messages) : st.messages[j].type = "tool"
          /\ \/ Contains(st.messages[i].content, "Status updated")
             \/ Contains(st.messages[i].content, "No todos")
    THEN 0
    ELSE st.rounds_without_todo

\* lines 133-136: the new value of rounds_without_todo
after_tools(st) ==
    IF /\ st.messages # <<>>
       /\ Last(st.messages).type = "tool"
       /\ \/ Contains(Last(st.messages).content, "Status updated")
          \/ Contains(Last(st.messages).content, "No todos")
    THEN 0
    ELSE st.rounds_without_todo

----------------------------------------------------------------------------
(* tools/todo.py: todo_write, and the other tools as far as the loop sees them *)

\* lines 21-27: the summary line for the board whose items are `items`
TodoSummary(items) ==
    IF TodoManager_stats(items).total = 0
    THEN <<"No todos", " have been created.">>
    ELSE <<"Status updated", ": ">> \o StrNat(TodoManager_stats(items).completed)
           \o <<" completed, ">> \o StrNat(TodoManager_stats(items).in_progress)
           \o <<" in progress.">>

\* ToolNode turns an exception of a handler into the content of its ToolMessage
ToolError(err) == <<"Error: ", err, " Please fix your mistakes.">>

\* todo_write(items) on a board whose items are cur: the text of the ToolMessage,
\* whether the handler returned, and the update call it made
todo_write(items, cur) ==
    LET r == TodoManager_update(items, cur) IN
    [update |-> r,
     content |-> IF r.ok THEN r.view \o <<NL, NL>> \o TodoSummary(r.items)
                 ELSE ToolError(r.err)]

\* what export_test_cases can return: the path of the file it wrote, or an error text
ExportOutputs(prof) ==
    IF prof = "long" THEN {<<"/workspace/", "generated_test_cases", ".json">>}
    ELSE {<<"/workspace/", "generated_test_cases", ".json">>, <<"{\"error\": ...}">>}

\* what bash can return: the output of the command, which may hold any words
BashOutputs(command) ==
    IF command = <<"cat TODO.md">> THEN {<<"TODO.md: ", "No todos", " left">>}
    ELSE {<<"ok">>}

----------------------------------------------------------------------------
(* The board driven alone: any sequence of update calls *)

\* a path as pathlib holds it: is it anchored at "/", and its parts
PurePath(abs, segs) == [abs |-> abs, segs |-> segs]

\* the working directory of the process, which Path.cwd() returns in its
\* canonical form
Cwd == <<"ws">>

\* config.py 29-32: the workspace root when no LANGGRAPH_AGENT_WORKSPACE is set
DefaultWorkspace == PurePath(TRUE, Cwd)

\* the symbolic links of the storage: /lnk -> /ws and /ws/out -> /etc
Links == (<<"lnk">> :> <<"ws">>) @@ (<<"ws", "out">> :> <<"etc">>)

\* storage as the session finds it: /ws with the file /ws/a, and /etc/a outside
InitialDisk ==
    [dirs |-> {<<>>, <<"ws">>, <<"etc">>},
     files |-> (<<"ws", "a">> :> <<"x">>) @@ (<<"etc", "a">> :> <<"s">>)]

\* an optional int argument: None, or a number
NoneInt == [some |-> FALSE, n |-> 0]
SomeInt(n) == [some |-> TRUE, n |-> n]

\* the arguments edit_text is called with besides the path
EditArgs(action, find, replace, insert_after, new_text, range_start, range_end) ==
    [action |-> action, find |-> find, replace |-> replace, insert_after |-> insert_after,
     new_text |-> new_text, range_start |-> range_start, range_end |-> range_end]

\* no arguments: the call was not one of edit_text
NoArgs == EditArgs("", <<>>, <<>>, NoneInt, <<>>, NoneInt, NoneInt)

\* no file tool has been called
NoFileOp == [tool |-> "none", path |-> PurePath(FALSE, <<>>), ok |-> FALSE, err |-> "",
             fp |-> <<>>, resolved |-> FALSE, touched |-> {}, text |-> <<>>,
             args |-> NoArgs]

\* no batch is being run
NoPool == [threads |-> <<>>, before |-> <<>>, collected |-> FALSE]

\* no model call has been made: no Spinner, no heartbeat thread
NoSpinner == [main |-> "idle", call |-> 0, thread |-> 0, outcome |-> "", timedOut |-> FALSE]
NoBeat == [at |-> "none", stop |-> FALSE]
NoBeats == [c \in 1..MaxModelCalls |-> NoBeat]
Terminal(isatty) == [isatty |-> isatty, stalled |-> FALSE, written |-> <<>>]

\* bash has not been called
NoProc == [at |-> "idle", command |-> <<>>, timeout_ms |-> 0, spawned |-> <<>>,
           exceeded |-> FALSE, ok |-> FALSE, exc |-> "", err |-> "", result |-> <<>>]

\* clamp_text has not been called
NoClamp == [called |-> FALSE, text |-> <<>>, limit |-> 0, result |-> <<>>]

\* the parts of the program a specification does not drive are at rest
AuxIdle ==
    /\ pool = NoPool
    /\ spinner = NoSpinner
    /\ beats = NoBeats
    /\ term = Terminal(FALSE)
    /\ workspace = DefaultWorkspace
    /\ disk = InitialDisk
    /\ fileOp = NoFileOp
    /\ proc = NoProc
    /\ clamped = NoClamp

NoOp == [called |-> FALSE, items |-> NotAList, before |-> <<>>, ok |-> FALSE,
         err |-> "", view |-> <<>>]

\* TODO_BOARD.update(items), with the call recorded in lastOp
CallUpdate(items) ==
    \E r \in {TodoManager_update(items, board)} :
    /\ board' = r.items
    /\ lastOp' = [called |-> TRUE, items |-> items, before |-> board, ok |-> r.ok,
                  err |-> r.err, view |-> r.view]

BoardUpdate == \E items \in BoardProposals : CallUpdate(items)

InitBoard ==
    /\ board = <<>>
    /\ lastOp = NoOp
    /\ pc = "closed"
    /\ cli = [messages |-> <<>>, rounds_without_todo |-> 0, pending_reminders |-> <<>>]
    /\ graph = [messages |-> <<>>, rounds_without_todo |-> 0, pending_reminders |-> <<>>]
    /\ base = 0
    /\ steps = 0
    /\ results = <<>>
    /\ nlines = 0
    /\ outbound = <<>>
    /\ agentState = 0
    /\ lastError = ""
    /\ lastNode = "none"
    /\ profile = "wide"
    /\ policy = NoPolicy
    /\ AuxIdle

NextBoard == BoardUpdate /\ UNCHANGED sessionVars /\ UNCHANGED auxVars

SpecBoard == InitBoard /\ [][NextBoard]_vars

----------------------------------------------------------------------------
(* The environment: what the user types and what the language model answers *)

\* the input lines a session is driven with; under the echo profile the user's
\* text holds the phrase call_model looks for
Lines(prof) ==
    IF prof \in {"long", "reset"} THEN {<<"hi">>, <<"q">>}
    ELSE IF prof = "echo" THEN {<<"what is ", "System message: complex work", "?">>, <<"q">>}
    ELSE {<<"hi">>, <<" ">>, <<>>, <<"q">>, <<" ", "EXIT", " ">>}

\* the responses llm.invoke can return; n makes the call ids fresh
Responses(prof, n) ==
    IF prof = "long"
    THEN {AIMessage(<<"answer">>, <<>>),
          AIMessage(<<>>, <<ToolCall("export_test_cases", NotAList, n + 1)>>)}
    ELSE IF prof = "echo"
    THEN {AIMessage(<<"answer">>, <<>>),
          AIMessage(<<>>, <<ToolCall("todo_write", AsList(<<Item("prog")>>), n + 1)>>)}
    ELSE IF prof = "call"
    THEN {AIMessage(<<"answer">>, <<>>)}
    ELSE IF prof = "reset"
    THEN {AIMessage(<<"answer">>, <<>>),
          AIMessage(<<>>, <<ToolCall("todo_write", AsList(<<Item("prog")>>), n + 1)>>),
          AIMessage(<<>>, <<BashCall(<<"echo ok">>, n + 1),
                            ToolCall("todo_write", AsList(<<>>), n + 2)>>)}
    ELSE {AIMessage(<<"answer">>, <<>>),
          AIMessage(<<>>, <<ToolCall("todo_write", AsList(<<Item("prog")>>), n + 1)>>),
          AIMessage(<<>>, <<ToolCall("todo_write", AsList(Build(2, "id1", "id1")), n + 1)>>),
          AIMessage(<<>>, <<ToolCall("export_test_cases", NotAList, n + 1)>>),
          AIMessage(<<>>, <<BashCall(<<"cat TODO.md">>, n + 1)>>),
          AIMessage(<<"working">>, <<ToolCall("todo_write", AsList(<<>>), n + 1),
                                     BashCall(<<"echo ok">>, n + 2)>>)}

LineCap == IF profile \in {"wide", "reset"} THEN MaxLines ELSE MaxLinesLong

\* the bound on the wide profile's history
RoomLeft == profile \notin {"wide", "reset"} \/ Len(cli.messages) < MaxHistory

----------------------------------------------------------------------------
(* agents/cli.py: run_cli, and the graph it streams *)

\* line 68: not line or line.strip().lower() in {"q", "quit", "exit"}
ShouldQuit(line) ==
    \/ line = <<>>
    \/ [i \in 1..Len(Strip(line)) |-> Lower(Strip(line)[i])]
          \in {<<"q">>, <<"quit">>, <<"exit">>}

\* lines 79-83: state["messages"].extend(m for m in value["messages"] if not System)
CliExtend(messages, new) == messages \o SelectSeq(new, NotSystem)

\* lines 58-75: read a line; leave on a quit word, else append the HumanMessage
\* and call app.stream(state, config), which writes the whole of `state` to the
\* thread's channels (messages is appended by its reducer `add`, the two other
\* keys are overwritten) and schedules the entry point
ReadLine ==
    /\ pc = "input"
    /\ nlines < LineCap
    /\ RoomLeft
    /\ nlines' = nlines + 1
    /\ \E line \in Lines(profile) :
          IF ShouldQuit(line)
          THEN /\ pc' = "closed"
               /\ UNCHANGED <<cli, graph, base, steps, lastNode, lastError>>
          ELSE /\ cli' = [cli EXCEPT !.messages = Append(@, HumanMessage(line))]
               /\ base' = Len(graph.messages)
               /\ graph' = AgentState(graph.messages \o cli'.messages,
                                      cli.rounds_without_todo, cli.pending_reminders)
               /\ steps' = 0
               /\ lastNode' = "none"
               /\ lastError' = ""
               /\ pc' = EntryPoint
    /\ UNCHANGED <<board, lastOp, results, outbound, agentState, profile, policy>>
    /\ UNCHANGED auxVars

\* lines 64-66: EOFError or KeyboardInterrupt at input() ends the session
ReadEOF ==
    /\ pc = "input"
    /\ pc' = "closed"
    /\ UNCHANGED <<board, lastOp, cli, graph, base, steps, results, nlines, outbound,
                   agentState, lastError, lastNode, profile, policy>>
    /\ UNCHANGED auxVars

\* run_cli's message list after call_model's in-place splice: the messages the
\* thread received with the current input are the objects of run_cli's list
CliSpliced(prep) ==
    IF prep.at > base THEN SpliceAt(cli.messages, prep.at - base, prep.queued)
    ELSE cli.messages

\* the agent node: call_model returns the response; run_cli takes the update
\* from the stream; should_continue picks the next node
AgentStep ==
    /\ pc = "agent"
    /\ steps < recursion_limit
    /\ RoomLeft
    /\ \E prep \in {PrepareCall(graph)} :
       \E response \in Responses(profile, 10 * Len(cli.messages)) :
          /\ outbound' = prep.final
          /\ policy' = PolicyRun(graph, prep)
          /\ graph' = AgentState(Append(prep.stored, response),
                                 RoundsAfterCall(graph.rounds_without_todo, response), <<>>)
          /\ cli' = AgentState(CliExtend(CliSpliced(prep), <<response>>),
                               RoundsAfterCall(graph.rounds_without_todo, response), <<>>)
          /\ pc' = EdgeFromAgent(graph'.messages)
    /\ steps' = steps + 1
    /\ lastNode' = "agent"
    /\ UNCHANGED <<board, lastOp, base, results, nlines, agentState, lastError, profile>>
    /\ UNCHANGED auxVars

\* a failure that takes back the turn: the HumanMessage of the turn and what
\* followed it are dropped from run_cli's list
AgentFail_rollback ==
    /\ pc = "agent"
    /\ steps < recursion_limit
    /\ RoomLeft
    /\ \E prep \in {PrepareCall(graph)} :
          /\ outbound' = prep.final
          /\ policy' = PolicyRun(graph, prep)
          /\ cli' = [cli EXCEPT !.messages = SubSeq(@, 1, LastHuman(@) - 1),
                                !.pending_reminders = prep.pending]
    /\ lastError' = "TransportError"
    /\ pc' = "input"
    /\ UNCHANGED <<board, lastOp, graph, base, steps, results, nlines, agentState,
                   lastNode, profile>>
    /\ UNCHANGED auxVars

\* the agent node when llm.invoke raises: the superstep writes nothing, the
\* thread keeps the checkpoint of the superstep before, and run_cli (lines 84-85)
\* reports the error and goes on to read the next line
AgentFail ==
    /\ pc = "agent"
    /\ steps < recursion_limit
    /\ RoomLeft
    /\ \E prep \in {PrepareCall(graph)} :
          /\ outbound' = prep.final
          /\ policy' = PolicyRun(graph, prep)
          /\ cli' = [cli EXCEPT !.messages = CliSpliced(prep),
                                !.pending_reminders = prep.pending]
    /\ lastError' = "TransportError"
    /\ pc' = "input"
    /\ UNCHANGED <<board, lastOp, graph, base, steps, results, nlines, agentState,
                   lastNode, profile>>
    /\ UNCHANGED auxVars

\* the tool calls the tools node works on: those of the last message
Calls == Last(graph.messages).tool_calls

\* the tools node runs the handler of the next call
ExecTool ==
    /\ pc = "tools"
    /\ steps < recursion_limit
    /\ Len(results) < Len(Calls)
    /\ \E call \in {Calls[Len(results) + 1]} :
          CASE call.name = "todo_write" ->
                 \E r \in {todo_write(call.items, board)} :
                    /\ board' = r.update.items
                    /\ lastOp' = [called |-> TRUE, items |-> call.items, before |-> board,
                                  ok |-> r.update.ok, err |-> r.update.err,
                                  view |-> r.update.view]
                    /\ agentState' = IF r.update.ok THEN 0 ELSE agentState
                    /\ results' = Append(results, ToolMessage(r.content, call.id))
            [] call.name = "export_test_cases" ->
                 \E out \in ExportOutputs(profile) :
                    /\ results' = Append(results, ToolMessage(out, call.id))
                    /\ UNCHANGED <<board, lastOp, agentState>>
            [] call.name = "bash" ->
                 \E out \in BashOutputs(call.command) :
                    /\ results' = Append(results, ToolMessage(out, call.id))
                    /\ UNCHANGED <<board, lastOp, agentState>>
    /\ UNCHANGED <<pc, cli, graph, base, steps, nlines, outbound, lastError, lastNode,
                   profile, policy>>
    /\ UNCHANGED auxVars

\* the tools node returns its ToolMessages, in the order of the calls
ToolsDone ==
    /\ pc = "tools"
    /\ steps < recursion_limit
    /\ Len(results) = Len(Calls)
    /\ graph' = [graph EXCEPT !.messages = @ \o results]
    /\ cli' = [cli EXCEPT !.messages = CliExtend(@, results)]
    /\ results' = <<>>
    /\ steps' = steps + 1
    /\ lastNode' = "tools"
    /\ pc' = EdgeFromTools
    /\ UNCHANGED <<board, lastOp, base, nlines, outbound, agentState, lastError, profile, policy>>
    /\ UNCHANGED auxVars

\* the after_tools node
AfterTools ==
    /\ pc = "after_tools"
    /\ steps < recursion_limit
    /\ graph' = [graph EXCEPT !.rounds_without_todo = after_tools(graph)]
    /\ cli' = [cli EXCEPT !.rounds_without_todo = after_tools(graph)]
    /\ steps' = steps + 1
    /\ lastNode' = "after_tools"
    /\ pc' = EdgeFromAfterTools
    /\ UNCHANGED <<board, lastOp, base, results, nlines, outbound, agentState, lastError,
                   profile, policy>>
    /\ UNCHANGED auxVars

\* a stream that waits when it has run recursion_limit supersteps
RecursionError_wait ==
    /\ pc \in {"agent", "tools", "after_tools"}
    /\ steps = recursion_limit
    /\ UNCHANGED vars

\* config "recursion_limit": once the stream has run that many supersteps and a
\* node is still due, it raises GraphRecursionError; run_cli (lines 84-85)
\* reports it and goes on to read the next line
RecursionError ==
    /\ pc \in {"agent", "tools", "after_tools"}
    /\ steps = recursion_limit
    /\ lastError' = "GraphRecursionError"
    /\ pc' = "input"
    /\ UNCHANGED <<board, lastOp, cli, graph, base, steps, results, nlines, outbound,
                   agentState, lastNode, profile, policy>>
    /\ UNCHANGED auxVars

\* the sessions in which the user presses Ctrl-C during a turn
Interruptible == profile # "wide"

\* lines 70-85: KeyboardInterrupt raised in the main thread while app.stream
\* runs a node; it is not an Exception, so the except clause of line 84 lets it
\* pass and it ends run_cli
Interrupt ==
    /\ pc \in {"agent", "tools", "after_tools"}
    /\ Interruptible
    /\ lastError' = "KeyboardInterrupt"
    /\ pc' = "closed"
    /\ UNCHANGED <<board, lastOp, cli, graph, base, steps, results, nlines, outbound,
                   agentState, lastNode, profile, policy>>
    /\ UNCHANGED auxVars

\* lines 56-60 of run_cli and workflow/context.py: the session as it starts
Init ==
    /\ board = <<>>
    /\ lastOp = NoOp
    /\ pc = "input"
    /\ cli = AgentState(<<SystemMessage>>, 0, <<>>)
    /\ graph = AgentState(<<>>, 0, <<>>)
    /\ base = 0
    /\ steps = 0
    /\ results = <<>>
    /\ nlines = 0
    /\ outbound = <<>>
    /\ agentState = 0
    /\ lastError = ""
    /\ lastNode = "none"
    /\ profile \in {"wide", "long", "echo", "reset"}
    /\ policy = NoPolicy
    /\ AuxIdle

Next ==
    \/ ReadLine
    \/ ReadEOF
    \/ AgentStep
    \/ AgentFail
    \/ ExecTool
    \/ ToolsDone
    \/ AfterTools
    \/ RecursionError
    \/ Interrupt

Spec == Init /\ [][Next]_vars

\* The sessions in which every model invocation and every tool execution
\* returns (no Ctrl-C cuts one short), with the scheduling of a turn: app.stream
\* runs the node that is due (cli.py 71, builder.py 56-68), so a turn that can
\* take a step takes one. Nothing makes the user enter a line. The model may
\* answer, fail, or ask for a tool in every response.
InitTurn == Init /\ profile = "long"

TurnStep == AgentStep \/ AgentFail \/ ExecTool \/ ToolsDone \/ AfterTools \/ RecursionError

NextTurn == ReadLine \/ ReadEOF \/ TurnStep

SpecTurn == InitTurn /\ [][NextTurn]_vars /\ WF_vars(TurnStep)

----------------------------------------------------------------------------
(* call_model driven alone: one call on any state of the graph's schema *)

\* the messages the lists are made of
CallAlphabet ==
    {SystemMessage, HumanMessage(<<"hi">>), HumanMessage(<<"yo">>),
     AIMessage(<<"answer">>, <<>>), ToolMessage(<<"ok">>, 1)}

CallMessages == UNION {[1..n -> CallAlphabet] : n \in 0..MaxCallMsgs}

\* values of rounds_without_todo around the two checks
CallRounds == {0, RoundsThreshold, RoundsThreshold + 1}

\* values of pending_reminders the call finds
CallQueues ==
    {<<>>, <<TodoReminder>>, <<RoundsReminder, TodoReminder>>, <<<<"<reminder>", "note">>>>}

\* the caller holds the state dict it passes: the messages and the queue that
\* call_model works on are the caller's objects
InitCall ==
    /\ board = <<>>
    /\ lastOp = NoOp
    /\ pc = EntryPoint
    /\ \E messages \in CallMessages, rounds \in CallRounds, pending \in CallQueues :
          /\ graph = AgentState(messages, rounds, pending)
          /\ cli = AgentState(messages, rounds, pending)
    /\ base = 0
    /\ steps = 0
    /\ results = <<>>
    /\ nlines = 0
    /\ outbound = <<>>
    /\ agentState = 0
    /\ lastError = ""
    /\ lastNode = "none"
    /\ profile = "call"
    /\ policy = NoPolicy
    /\ AuxIdle

NextCall == AgentStep \/ AgentFail

SpecCall == InitCall /\ [][NextCall]_vars

----------------------------------------------------------------------------
(* The tools node driven alone: ToolNode(tools_list) runs the calls of one     *)
(* response on its thread pool, one worker per call, and returns their         *)
(* ToolMessages in the order of the calls.  The handlers of the repository     *)
(* take no lock: the steps below are the places where a handler reads or       *)
(* writes TODO_BOARD and AGENT_STATE, which the workers share.  (Under Spec    *)
(* the batches hold at most one call that touches the board, and ExecTool      *)
(* runs them in order.)                                                        *)

\* the most calls one response asks for
MaxBatch == 2

\* the lists the todo_write calls of a batch propose
PoolProposals ==
    {AsList(<<>>), AsList(<<Item("prog")>>), AsList(Build(2, "done", "idA")),
     AsList(Build(2, "id1", "id1"))}

\* the calls a batch is made of, with call id n
PoolCalls(n) ==
    {ToolCall("todo_write", items, n) : items \in PoolProposals}
      \cup {BashCall(<<"echo ok">>, n)}

\* the batches: 1..MaxBatch calls, the i-th with call id i
Batches ==
    UNION {{b \in [1..n -> UNION {PoolCalls(k) : k \in 1..MaxBatch}] :
               \A i \in 1..n : b[i].id = i} : n \in 1..MaxBatch}

\* a worker of the pool: the call it runs, where its handler is, what
\* TODO_BOARD.update returned to it, and the content of its ToolMessage
Worker(call) == [call |-> call, at |-> "queued", view |-> <<>>, result |-> <<>>]

\* the variables the handlers of the tools do not touch
idleVars == <<lastOp, pc, cli, graph, base, steps, nlines, outbound, lastError,
              lastNode, profile, policy, spinner, beats, term, workspace, disk, fileOp,
              proc, clamped>>

\* pool with worker i moved to position `at`
Moved(i, at) == [pool EXCEPT !.threads[i].at = at]

\* the tools node receives a response's calls and hands each to a worker
Submit ==
    /\ pc = "tools"
    /\ pool.threads = <<>> \/ pool.collected
    /\ \E batch \in Batches :
          pool' = [threads |-> [i \in 1..Len(batch) |-> Worker(batch[i])],
                   before |-> board, collected |-> FALSE]
    /\ results' = <<>>
    /\ UNCHANGED <<board, agentState>>
    /\ UNCHANGED idleVars

\* a worker enters the handler of its call
HandlerStart ==
    /\ \E i \in 1..Len(pool.threads) :
          /\ pool.threads[i].at = "queued"
          /\ pool' = Moved(i, IF pool.threads[i].call.name = "todo_write"
                              THEN "update" ELSE "run")
    /\ UNCHANGED <<board, agentState, results>>
    /\ UNCHANGED idleVars

\* models/todo.py 33-82: update validates the proposed list with locals only and
\* then assigns self.items; a ValueError ends the handler
HandlerUpdate ==
    /\ \E i \in 1..Len(pool.threads) :
          /\ pool.threads[i].at = "update"
          /\ \E r \in {TodoManager_update(pool.threads[i].call.items, board)} :
                IF r.ok
                THEN /\ board' = r.items
                     /\ pool' = Moved(i, "render")
                ELSE /\ board' = board
                     /\ pool' = [pool EXCEPT !.threads[i].at = "done",
                                             !.threads[i].result = ToolError(r.err)]
    /\ UNCHANGED <<agentState, results>>
    /\ UNCHANGED idleVars

\* models/todo.py 83: return self.render(), which reads self.items again
HandlerRender ==
    /\ \E i \in 1..Len(pool.threads) :
          /\ pool.threads[i].at = "render"
          /\ pool' = [pool EXCEPT !.threads[i].at = "reset",
                                  !.threads[i].view = TodoManager_render(board)]
    /\ UNCHANGED <<board, agentState, results>>
    /\ UNCHANGED idleVars

\* tools/todo.py 18: AGENT_STATE["rounds_without_todo"] = 0
HandlerReset ==
    /\ \E i \in 1..Len(pool.threads) :
          /\ pool.threads[i].at = "reset"
          /\ pool' = Moved(i, "stats")
    /\ agentState' = 0
    /\ UNCHANGED <<board, results>>
    /\ UNCHANGED idleVars

\* tools/todo.py 19-29: TODO_BOARD.stats() reads self.items; the result is the
\* view, an empty line and the summary
HandlerStats ==
    /\ \E i \in 1..Len(pool.threads) :
          /\ pool.threads[i].at = "stats"
          /\ pool' = [pool EXCEPT !.threads[i].at = "done",
                                  !.threads[i].result =
                                      pool.threads[i].view \o <<NL, NL>> \o TodoSummary(board)]
    /\ UNCHANGED <<board, agentState, results>>
    /\ UNCHANGED idleVars

\* tools/system.py 15-39: bash runs its command and returns the output
HandlerRun ==
    /\ \E i \in 1..Len(pool.threads) :
          /\ pool.threads[i].at = "run"
          /\ \E out \in BashOutputs(pool.threads[i].call.command) :
                pool' = [pool EXCEPT !.threads[i].at = "done", !.threads[i].result = out]
    /\ UNCHANGED <<board, agentState, results>>
    /\ UNCHANGED idleVars

\* every worker is done: the node has one ToolMessage per call, in call order
Collect ==
    /\ pool.threads # <<>>
    /\ ~pool.collected
    /\ \A i \in 1..Len(pool.threads) : pool.threads[i].at = "done"
    /\ results' = [i \in 1..Len(pool.threads) |->
                      ToolMessage(pool.threads[i].result, pool.threads[i].call.id)]
    /\ pool' = [pool EXCEPT !.collected = TRUE]
    /\ UNCHANGED <<board, agentState>>
    /\ UNCHANGED idleVars

InitTools ==
    /\ board = <<>>
    /\ lastOp = NoOp
    /\ pc = "tools"
    /\ cli = AgentState(<<>>, 0, <<>>)
    /\ graph = AgentState(<<>>, 0, <<>>)
    /\ base = 0
    /\ steps = 0
    /\ results = <<>>
    /\ nlines = 0
    /\ outbound = <<>>
    /\ agentState \in {0, 1}
    /\ lastError = ""
    /\ lastNode = "agent"
    /\ profile = "tools"
    /\ policy = NoPolicy
    /\ pool = NoPool
    /\ spinner = NoSpinner
    /\ beats = NoBeats
    /\ term = Terminal(FALSE)
    /\ workspace = DefaultWorkspace
    /\ disk = InitialDisk
    /\ fileOp = NoFileOp
    /\ proc = NoProc
    /\ clamped = NoClamp

NextTools ==
    \/ Submit
    \/ HandlerStart
    \/ HandlerUpdate
    \/ HandlerRender
    \/ HandlerReset
    \/ HandlerStats
    \/ HandlerRun
    \/ Collect

SpecTools == InitTools /\ [][NextTools]_vars

----------------------------------------------------------------------------
(* call_model's heartbeat driven alone: the main thread from `spinner =        *)
(* Spinner()` to the end of the finally clause (graph/nodes.py 97-123), the    *)
(* threads Spinner.start makes (utils/console.py 88-106) and the terminal      *)
(* they both write to.  A terminal can stop taking output (flow control); a    *)
(* write to it then blocks until it resumes.  Time is not modelled except for  *)
(* this: a heartbeat sleeps 0.08 s and the join waits 1 s, so the join gives   *)
(* up only on a heartbeat that is blocked in its write.                        *)

\* the variables the heartbeat does not touch
quietVars == <<board, lastOp, pc, cli, graph, base, steps, results, nlines, outbound,
               agentState, lastError, lastNode, profile, policy, pool, workspace, disk,
               fileOp, proc, clamped>>

\* what the terminal shows after one more write since the call began; frames
\* written one after the other overwrite each other ("\r")
Log(entry) ==
    IF entry = "frame" /\ term.written # <<>> /\ Last(term.written) = "frame"
    THEN term.written
    ELSE Append(term.written, entry)

\* a finally clause that runs on return only
OnRaise_nofinally == "done"

\* lines 100 and 122: where call_model goes when llm.invoke raises
OnRaise == "stop"

\* nodes.py 97-98, console.py 81-106: a new Spinner, and start(), which makes a
\* thread when stdout is a tty (a new Spinner has no thread yet)
CallStart ==
    /\ spinner.main \in {"idle", "done"}
    /\ spinner.call < MaxModelCalls
    /\ \E c \in {spinner.call + 1} :
          IF term.isatty
          THEN /\ beats' = [beats EXCEPT ![c] = [at |-> "check", stop |-> FALSE]]
               /\ spinner' = [main |-> "invoke", call |-> c, thread |-> c,
                              outcome |-> "", timedOut |-> FALSE]
          ELSE /\ beats' = beats
               /\ spinner' = [main |-> "invoke", call |-> c, thread |-> 0,
                              outcome |-> "", timedOut |-> FALSE]
    /\ term' = [term EXCEPT !.written = <<>>]
    /\ UNCHANGED quietVars

\* nodes.py 101-103: llm.invoke returns a response, with text or without
InvokeReturns ==
    /\ spinner.main = "invoke"
    /\ \E content \in {<<>>, <<"answer">>} :
          spinner' = [spinner EXCEPT !.main = IF content # <<>> THEN "print" ELSE "stop",
                                     !.outcome = "returned"]
    /\ UNCHANGED <<beats, term>>
    /\ UNCHANGED quietVars

\* nodes.py 101: llm.invoke raises
InvokeRaises ==
    /\ spinner.main = "invoke"
    /\ spinner' = [spinner EXCEPT !.main = OnRaise, !.outcome = "raised"]
    /\ UNCHANGED <<beats, term>>
    /\ UNCHANGED quietVars

\* nodes.py 103-115: the text of the response is printed, inside the try block
PrintResponse ==
    /\ spinner.main = "print"
    /\ ~term.stalled
    /\ term' = [term EXCEPT !.written = Log("response")]
    /\ spinner' = [spinner EXCEPT !.main = "stop"]
    /\ UNCHANGED beats
    /\ UNCHANGED quietVars

\* nodes.py 122-123, console.py 108-111: stop() returns when the Spinner has no
\* thread, else it sets the event
SpinnerStop ==
    /\ spinner.main = "stop"
    /\ IF spinner.thread = 0
       THEN /\ spinner' = [spinner EXCEPT !.main = "done"]
            /\ beats' = beats
       ELSE /\ spinner' = [spinner EXCEPT !.main = "join"]
            /\ beats' = [beats EXCEPT ![spinner.thread].stop = TRUE]
    /\ UNCHANGED term
    /\ UNCHANGED quietVars

\* console.py 112: join returns because the thread has ended
JoinEnds ==
    /\ spinner.main = "join"
    /\ beats[spinner.thread].at = "ended"
    /\ spinner' = [spinner EXCEPT !.main = "drop"]
    /\ UNCHANGED <<beats, term>>
    /\ UNCHANGED quietVars

\* console.py 112: join(timeout=1) returns because the second is over
JoinTimesOut ==
    /\ spinner.main = "join"
    /\ beats[spinner.thread].at = "write"
    /\ term.stalled
    /\ spinner' = [spinner EXCEPT !.main = "drop", !.timedOut = TRUE]
    /\ UNCHANGED <<beats, term>>
    /\ UNCHANGED quietVars

\* console.py 113-118: the handle is dropped and the line is cleared; call_model
\* is over
SpinnerClear ==
    /\ spinner.main = "drop"
    /\ ~term.stalled
    /\ term' = [term EXCEPT !.written = Log("clear")]
    /\ spinner' = [spinner EXCEPT !.main = "done", !.thread = 0]
    /\ UNCHANGED beats
    /\ UNCHANGED quietVars

\* console.py 96: the loop test of run()
BeatCheck ==
    /\ \E c \in 1..MaxModelCalls :
          /\ beats[c].at = "check"
          /\ beats' = [beats EXCEPT ![c].at = IF beats[c].stop THEN "ended" ELSE "write"]
    /\ UNCHANGED <<spinner, term>>
    /\ UNCHANGED quietVars

\* console.py 97-101: a frame is written and flushed
BeatWrite ==
    /\ \E c \in 1..MaxModelCalls :
          /\ beats[c].at = "write"
          /\ ~term.stalled
          /\ beats' = [beats EXCEPT ![c].at = "sleep"]
    /\ term' = [term EXCEPT !.written = Log("frame")]
    /\ UNCHANGED spinner
    /\ UNCHANGED quietVars

\* console.py 102-103: time.sleep(0.08) returns
BeatSleep ==
    /\ \E c \in 1..MaxModelCalls :
          /\ beats[c].at = "sleep"
          /\ beats' = [beats EXCEPT ![c].at = "check"]
    /\ UNCHANGED <<spinner, term>>
    /\ UNCHANGED quietVars

\* the terminal stops taking output, and takes it again
TerminalStalls ==
    /\ term.isatty
    /\ ~term.stalled
    /\ term' = [term EXCEPT !.stalled = TRUE]
    /\ UNCHANGED <<spinner, beats>>
    /\ UNCHANGED quietVars

TerminalResumes ==
    /\ term.stalled
    /\ term' = [term EXCEPT !.stalled = FALSE]
    /\ UNCHANGED <<spinner, beats>>
    /\ UNCHANGED quietVars

InitSpinner ==
    /\ board = <<>>
    /\ lastOp = NoOp
    /\ pc = "agent"
    /\ cli = AgentState(<<>>, 0, <<>>)
    /\ graph = AgentState(<<>>, 0, <<>>)
    /\ base = 0
    /\ steps = 0
    /\ results = <<>>
    /\ nlines = 0
    /\ outbound = <<>>
    /\ agentState = 0
    /\ lastError = ""
    /\ lastNode = "none"
    /\ profile = "spinner"
    /\ policy = NoPolicy
    /\ pool = NoPool
    /\ spinner = NoSpinner
    /\ beats = NoBeats
    /\ \E isatty \in BOOLEAN : term = Terminal(isatty)
    /\ workspace = DefaultWorkspace
    /\ disk = InitialDisk
    /\ fileOp = NoFileOp
    /\ proc = NoProc
    /\ clamped = NoClamp

NextSpinner ==
    \/ CallStart
    \/ InvokeReturns
    \/ InvokeRaises
    \/ PrintResponse
    \/ SpinnerStop
    \/ JoinEnds
    \/ JoinTimesOut
    \/ SpinnerClear
    \/ BeatCheck
    \/ BeatWrite
    \/ BeatSleep
    \/ TerminalStalls
    \/ TerminalResumes

SpecSpinner == InitSpinner /\ [][NextSpinner]_vars

----------------------------------------------------------------------------
(* utils/filesystem.py: safe_path, with pathlib's operations on paths.  A path  *)
(* string is held as its anchor and the segments between its slashes; a        *)
(* canonical path is the sequence of names from "/" down.                      *)

\* the most segments a candidate path has
MaxSegs == 2

\* what stands between the slashes of a candidate: names, "..", ".", and
\* nothing (a doubled or a trailing slash)
Segments == {"..", ".", "", "a", "b", "out", "etc", "ws", "lnk"}

\* the candidate paths: "" and "/", "a", "a/", "../etc", "/etc/a", "out/a", ...
Candidates ==
    {PurePath(abs, segs) : abs \in BOOLEAN,
                           segs \in UNION {[1..n -> Segments] : n \in 0..MaxSegs}}

\* the roots a session can be configured with: the default, and
\* LANGGRAPH_AGENT_WORKSPACE set to "/lnk" or to "." (config.py 42-45)
Workspaces == {DefaultWorkspace, PurePath(TRUE, <<"lnk">>), PurePath(FALSE, <<>>)}

\* Path(string): empty segments and "." are dropped, ".." is kept
IsPart(seg) == seg \notin {"", "."}
ParsePath(raw) == PurePath(raw.abs, SelectSeq(raw.segs, IsPart))

\* root / other: an anchored right operand replaces the left one
JoinPath(root, other) ==
    IF other.abs THEN other ELSE PurePath(root.abs, root.segs \o other.segs)

\* the target of a symbolic link, or the path itself
Follow(path) == IF path \in DOMAIN Links THEN Links[path] ELSE path

\* Path.resolve() from directory cur through the parts segs: ".." goes to the
\* parent of where the walk is, a link is followed, a missing name is kept
RECURSIVE Walk(_, _)
Walk(cur, segs) ==
    IF segs = <<>> THEN cur
    ELSE IF Head(segs) = ".."
    THEN Walk(IF cur = <<>> THEN <<>> ELSE SubSeq(cur, 1, Len(cur) - 1), Tail(segs))
    ELSE Walk(Follow(Append(cur, Head(segs))), Tail(segs))

\* a resolve() that normalises the text of the path and follows no link
Resolve_lexical(path) ==
    LET RECURSIVE Norm(_, _)
        Norm(cur, segs) ==
            IF segs = <<>> THEN cur
            ELSE IF Head(segs) = ".."
            THEN Norm(IF cur = <<>> THEN <<>> ELSE SubSeq(cur, 1, Len(cur) - 1), Tail(segs))
            ELSE Norm(Append(cur, Head(segs)), Tail(segs))
    IN  PurePath(TRUE, Norm(IF path.abs THEN <<>> ELSE Cwd, path.segs))

\* Path.resolve(): the canonical path; a relative path starts at the working
\* directory
Resolve(path) == PurePath(TRUE, Walk(IF path.abs THEN <<>> ELSE Cwd, path.segs))

\* path.relative_to(root) does not raise: same anchor, and the parts of root
\* are the first parts of path, compared as they are written
IsRelativeTo(path, root) ==
    /\ path.abs = root.abs
    /\ Len(root.segs) <= Len(path.segs)
    /\ SubSeq(path.segs, 1, Len(root.segs)) = root.segs

\* safe_path(path_value) under settings.workspace = root: the path returned, or
\* the message of WorkspacePathError
safe_path(path_value, root) ==
    LET abs_path == Resolve(JoinPath(root, ParsePath(path_value))) IN
    IF IsRelativeTo(abs_path, root)
    THEN [ok |-> TRUE, fp |-> abs_path.segs, err |-> ""]
    ELSE [ok |-> FALSE, fp |-> <<>>, err |-> "Path escapes workspace"]

\* safe_path is called on the candidate the state holds
ResolvePath ==
    /\ fileOp.tool = "none"
    /\ \E r \in {safe_path(fileOp.path, workspace)} :
          fileOp' = [fileOp EXCEPT !.tool = "safe_path", !.ok = r.ok, !.err = r.err,
                                   !.fp = r.fp, !.resolved = r.ok]
    /\ UNCHANGED <<workspace, disk>>
    /\ UNCHANGED <<pool, spinner, beats, term, proc, clamped>>
    /\ UNCHANGED <<boardVars, sessionVars>>

InitPath ==
    /\ board = <<>>
    /\ lastOp = NoOp
    /\ pc = "closed"
    /\ cli = AgentState(<<>>, 0, <<>>)
    /\ graph = AgentState(<<>>, 0, <<>>)
    /\ base = 0
    /\ steps = 0
    /\ results = <<>>
    /\ nlines = 0
    /\ outbound = <<>>
    /\ agentState = 0
    /\ lastError = ""
    /\ lastNode = "none"
    /\ profile = "path"
    /\ policy = NoPolicy
    /\ pool = NoPool
    /\ spinner = NoSpinner
    /\ beats = NoBeats
    /\ term = Terminal(FALSE)
    /\ workspace \in Workspaces
    /\ disk = InitialDisk
    /\ \E candidate \in Candidates : fileOp = [NoFileOp EXCEPT !.path = candidate]
    /\ proc = NoProc
    /\ clamped = NoClamp

NextPath == ResolvePath

SpecPath == InitPath /\ [][NextPath]_vars

----------------------------------------------------------------------------
(* tools/system.py: read_file, write_file and edit_text on the storage.  Each  *)
(* returns what the call did: did it return, the error it raised, the storage  *)
(* afterwards, the files it read and the directories and files it created or   *)
(* wrote (touched), and the text it read or wrote.                             *)

\* files hold at most MaxText tokens and the storage at most MaxFiles files
MaxText == 2
MaxFiles == 3

\* the paths the file tools are called with: "", "a", "b/a", "a/b", "out/a",
\* "/etc/a", "/lnk/b"
FileCandidates ==
    {PurePath(FALSE, <<>>), PurePath(FALSE, <<"a">>), PurePath(FALSE, <<"b", "a">>),
     PurePath(FALSE, <<"a", "b">>), PurePath(FALSE, <<"out", "a">>),
     PurePath(TRUE, <<"etc", "a">>), PurePath(TRUE, <<"lnk", "b">>)}

Edits ==
    {EditArgs("replace", <<"x">>, <<"y">>, NoneInt, <<>>, NoneInt, NoneInt),
     EditArgs("replace", <<>>, <<"y">>, NoneInt, <<>>, NoneInt, NoneInt),
     EditArgs("insert", <<>>, <<>>, NoneInt, <<"y">>, NoneInt, NoneInt),
     EditArgs("delete_range", <<>>, <<>>, NoneInt, <<>>, SomeInt(0), SomeInt(1)),
     EditArgs("delete_range", <<>>, <<>>, NoneInt, <<>>, SomeInt(1), SomeInt(0)),
     EditArgs("delete_range", <<>>, <<>>, NoneInt, <<>>, SomeInt(0), NoneInt),
     EditArgs("move", <<>>, <<>>, NoneInt, <<>>, NoneInt, NoneInt)}

\* what a call of a file tool did
FileResult(ok, err, fp, resolved, after, touched, text) ==
    [ok |-> ok, err |-> err, fp |-> fp, resolved |-> resolved, disk |-> after,
     touched |-> touched, text |-> text]

\* the call raised before it touched storage
Refused(err, resolved, fp, cur) == FileResult(FALSE, err, fp, resolved, cur, {}, <<>>)

\* one access to storage
Touch(kind, path) == [kind |-> kind, path |-> path]

\* fp.write_text(text) on storage cur
WriteText(cur, fp, text) ==
    [cur EXCEPT !.files = [q \in DOMAIN cur.files \cup {fp} |->
                              IF q = fp THEN text ELSE cur.files[q]]]

\* the directories above canonical path fp, from "/" down to its parent
Parents(fp) == {SubSeq(fp, 1, k) : k \in 0..(Len(fp) - 1)}

\* a read_file that opens the path it is given under the root, unchecked
read_file_unchecked(path, root, cur) ==
    LET fp == Resolve(JoinPath(root, ParsePath(path))).segs IN
    IF fp \in DOMAIN cur.files
    THEN FileResult(TRUE, "", fp, FALSE, cur, {Touch("read", fp)}, cur.files[fp])
    ELSE Refused("OSError", FALSE, fp, cur)

\* lines 52-53: read_file(path) on storage cur under root `root`
read_file(path, root, cur) ==
    LET r == safe_path(path, root) IN
    IF ~r.ok THEN Refused(r.err, FALSE, <<>>, cur)
    ELSE IF r.fp \in DOMAIN cur.files
    THEN FileResult(TRUE, "", r.fp, TRUE, cur, {Touch("read", r.fp)}, cur.files[r.fp])
    ELSE Refused("OSError", TRUE, r.fp, cur)

\* lines 71-81: write_file(path, content, mode); mkdir(parents=True,
\* exist_ok=True) makes the missing directories above the file, and raises when
\* a regular file stands in their place; writing to a directory raises
write_file(path, content, mode, root, cur) ==
    LET r == safe_path(path, root) IN
    IF ~r.ok THEN Refused(r.err, FALSE, <<>>, cur)
    ELSE IF r.fp = <<>> \/ \E d \in Parents(r.fp) : d \in DOMAIN cur.files
    THEN Refused("OSError", TRUE, r.fp, cur)
    ELSE
      LET made == Parents(r.fp) \ cur.dirs
          withDirs == [cur EXCEPT !.dirs = @ \cup made]
          mkdirs == {Touch("mkdir", d) : d \in made}
          text == IF mode = "append" /\ r.fp \in DOMAIN cur.files
                  THEN cur.files[r.fp] \o content ELSE content
      IN
      IF r.fp \in withDirs.dirs
      THEN FileResult(FALSE, "OSError", r.fp, TRUE, withDirs, mkdirs, <<>>)
      ELSE FileResult(TRUE, "", r.fp, TRUE, WriteText(withDirs, r.fp, text),
                      mkdirs \cup {Touch("write", r.fp)}, text)

\* text.replace(find, replace) on tokens: find is one token
RECURSIVE ReplaceAll(_, _, _)
ReplaceAll(text, find, replace) ==
    IF text = <<>> THEN <<>>
    ELSE (IF <<Head(text)>> = find THEN replace ELSE <<Head(text)>>)
            \o ReplaceAll(Tail(text), find, replace)

\* rows[:k] and rows[k:] for k >= 0
Upto(rows, k) == SubSeq(rows, 1, IF k < Len(rows) THEN k ELSE Len(rows))
From(rows, k) == SubSeq(rows, (IF k < Len(rows) THEN k ELSE Len(rows)) + 1, Len(rows))

\* the file is opened for writing before the arguments are checked
EditRaise_truncating(msg, fp, cur, text) ==
    FileResult(FALSE, msg, fp, TRUE, WriteText(cur, fp, <<>>),
               {Touch("read", fp), Touch("write", fp)}, text)

\* lines 106, 122, 129: edit_text raises after it has read the file
EditRaise(msg, fp, cur, text) ==
    FileResult(FALSE, msg, fp, TRUE, cur, {Touch("read", fp)}, text)

\* lines 101-129: edit_text(path, action, ...)
edit_text(path, args, root, cur) ==
    LET r == safe_path(path, root) IN
    IF ~r.ok THEN Refused(r.err, FALSE, <<>>, cur)
    ELSE IF r.fp \notin DOMAIN cur.files THEN Refused("OSError", TRUE, r.fp, cur)
    ELSE
      LET text == cur.files[r.fp]
          read == {Touch("read", r.fp)}
          Raise(msg) == EditRaise(msg, r.fp, cur, text)
          Write(new) == FileResult(TRUE, "", r.fp, TRUE, WriteText(cur, r.fp, new),
                                   read \cup {Touch("write", r.fp)}, new)
          rows == SplitNL(text)
      IN
      CASE args.action = "replace" ->
             IF args.find = <<>> THEN Raise("edit_text.replace missing find")
             ELSE Write(ReplaceAll(text, args.find, args.replace))
        [] args.action = "insert" ->
             LET line_number == IF args.insert_after.some THEN args.insert_after.n ELSE -1
                 least == IF Len(rows) - 1 < line_number THEN Len(rows) - 1 ELSE line_number
                 idx == IF least < -1 THEN -1 ELSE least
             IN  Write(JoinNL(Upto(rows, idx + 1) \o <<args.new_text>> \o From(rows, idx + 1)))
        [] args.action = "delete_range" ->
             IF \/ ~args.range_start.some
                \/ ~args.range_end.some
                \/ args.range_end.n < args.range_start.n
             THEN Raise("edit_text.delete_range invalid range")
             ELSE Write(JoinNL(Upto(rows, args.range_start.n) \o From(rows, args.range_end.n)))
        [] OTHER -> Raise("unsupported edit_text.action")

\* the storage stays within the bounds of the model
DiskFits(d) ==
    /\ Cardinality(DOMAIN d.files) <= MaxFiles
    /\ \A q \in DOMAIN d.files : Len(d.files[q]) <= MaxText

\* the call is recorded in fileOp
Recorded(tool, path, r) ==
    [tool |-> tool, path |-> path, ok |-> r.ok, err |-> r.err, fp |-> r.fp,
     resolved |-> r.resolved, touched |-> r.touched, text |-> r.text, args |-> NoArgs]

\* the variables the file tools do not touch
restVars == <<board, lastOp, pc, cli, graph, base, steps, results, nlines, outbound,
              agentState, lastError, lastNode, profile, policy, pool, spinner, beats,
              term, workspace, proc, clamped>>

ReadFile ==
    /\ \E path \in FileCandidates :
       \E r \in {read_file(path, workspace, disk)} :
          /\ DiskFits(r.disk)
          /\ disk' = r.disk
          /\ fileOp' = Recorded("read_file", path, r)
    /\ UNCHANGED restVars

WriteFile ==
    /\ \E path \in FileCandidates, mode \in {"overwrite", "append"} :
       \E r \in {write_file(path, <<"y">>, mode, workspace, disk)} :
          /\ DiskFits(r.disk)
          /\ disk' = r.disk
          /\ fileOp' = Recorded("write_file", path, r)
    /\ UNCHANGED restVars

EditText ==
    /\ \E path \in FileCandidates, args \in Edits :
       \E r \in {edit_text(path, args, workspace, disk)} :
          /\ DiskFits(r.disk)
          /\ disk' = r.disk
          /\ fileOp' = [Recorded("edit_text", path, r) EXCEPT !.args = args]
    /\ UNCHANGED restVars

InitFiles ==
    /\ board = <<>>
    /\ lastOp = NoOp
    /\ pc = "tools"
    /\ cli = AgentState(<<>>, 0, <<>>)
    /\ graph = AgentState(<<>>, 0, <<>>)
    /\ base = 0
    /\ steps = 0
    /\ results = <<>>
    /\ nlines = 0
    /\ outbound = <<>>
    /\ agentState = 0
    /\ lastError = ""
    /\ lastNode = "agent"
    /\ profile = "files"
    /\ policy = NoPolicy
    /\ pool = NoPool
    /\ spinner = NoSpinner
    /\ beats = NoBeats
    /\ term = Terminal(FALSE)
    /\ workspace \in Workspaces
    /\ disk = InitialDisk
    /\ fileOp = NoFileOp
    /\ proc = NoProc
    /\ clamped = NoClamp

NextFiles == ReadFile \/ WriteFile \/ EditText

SpecFiles == InitFiles /\ [][NextFiles]_vars

----------------------------------------------------------------------------
(* clamp_text driven alone: texts here are sequences of characters *)

\* texts of 0..MaxClampText characters, limits 0..MaxLimit
MaxClampText == 3
MaxLimit == 3

Letters == {"a", "b"}
ClampTexts == UNION {[1..n -> Letters] : n \in 0..MaxClampText}
Limits == 0..MaxLimit

\* text[:limit]
Slice(text, limit) ==
    IF limit >= 0 THEN SubSeq(text, 1, IF limit < Len(text) THEN limit ELSE Len(text))
    ELSE SubSeq(text, 1, IF Len(text) + limit > 0 THEN Len(text) + limit ELSE 0)

\* f"\n\n...<truncated {remaining} chars>", character by character
TruncatedNote(remaining) ==
    <<"\n", "\n", ".", ".", ".", "<", "t", "r", "u", "n", "c", "a", "t", "e", "d", " ">>
    \o StrNat(remaining) \o <<" ", "c", "h", "a", "r", "s", ">">>

\* the note names the length of the whole text
clamp_text_total(text, limit) ==
    IF Len(text) <= limit THEN text
    ELSE Slice(text, limit) \o TruncatedNote(Len(text))

clamp_text(text, limit) ==
    IF Len(text) <= limit THEN text
    ELSE Slice(text, limit) \o TruncatedNote(Len(text) - limit)

ClampCall ==
    /\ ~clamped.called
    /\ clamped' = [clamped EXCEPT !.called = TRUE,
                                  !.result = clamp_text(clamped.text, clamped.limit)]
    /\ UNCHANGED <<boardVars, sessionVars>>
    /\ UNCHANGED <<pool, spinner, beats, term, workspace, disk, fileOp, proc>>

InitClamp ==
    /\ board = <<>>
    /\ lastOp = NoOp
    /\ pc = "closed"
    /\ cli = AgentState(<<>>, 0, <<>>)
    /\ graph = AgentState(<<>>, 0, <<>>)
    /\ base = 0
    /\ steps = 0
    /\ results = <<>>
    /\ nlines = 0
    /\ outbound = <<>>
    /\ agentState = 0
    /\ lastError = ""
    /\ lastNode = "none"
    /\ profile = "clamp"
    /\ policy = NoPolicy
    /\ pool = NoPool
    /\ spinner = NoSpinner
    /\ beats = NoBeats
    /\ term = Terminal(FALSE)
    /\ workspace = DefaultWorkspace
    /\ disk = InitialDisk
    /\ fileOp = NoFileOp
    /\ proc = NoProc
    /\ \E text \in ClampTexts, limit \in Limits :
          clamped = [NoClamp EXCEPT !.text = text, !.limit = limit]

NextClamp == ClampCall

SpecClamp == InitClamp /\ [][NextClamp]_vars

----------------------------------------------------------------------------
(* The bash tool driven alone. A command is the sequence of the pieces of text
   it is written with; a piece of text here is a sequence of characters. *)

\* commands of 0..MaxCommand pieces
MaxCommand == 3

\* config.py 33-36
max_tool_result_chars == 100000

\* the pieces commands are written with
Pieces == {"rm -rf ", "/", "sudo", " ", "reboot", "shutdown", "ls"}
Commands == UNION {[1..n -> Pieces] : n \in 0..MaxCommand}

\* system.py 20: "rm -rf /", "shutdown", "reboot", "sudo "
Denylist == {<<"rm -rf ", "/">>, <<"shutdown">>, <<"reboot">>, <<"sudo", " ">>}

\* timeout_ms: the default and one a caller gives
Timeouts == {30000, 1000}

\* what a process can write to one of its streams
Streams == {<<>>, <<"o">>, <<"e", NL>>}

\* token in command
In(token, command) ==
    \E i \in 1..(Len(command) - Len(token) + 1) :
        SubSeq(command, i, i + Len(token) - 1) = token

\* only a command that begins with a listed text is refused
IsBlocked_prefix(command) ==
    \E token \in Denylist :
        Len(token) <= Len(command) /\ SubSeq(command, 1, Len(token)) = token

\* system.py 20
IsBlocked(command) == \E token \in Denylist : In(token, command)

\* system.py 33-35: "\n".join(part for part in [stdout, stderr] if part).strip()
Output(stdout, stderr) ==
    Strip(IF stdout # <<>> /\ stderr # <<>> THEN stdout \o <<NL>> \o stderr
          ELSE stdout \o stderr)

NoOutput == <<"(", "n", "o", " ", "o", "u", "t", "p", "u", "t", ")">>

\* how a call of bash ends: by raising, or by returning a text
Raised(p, exc, err) == [p EXCEPT !.at = "done", !.ok = FALSE, !.exc = exc, !.err = err]
Returned(p, text) == [p EXCEPT !.at = "done", !.ok = TRUE, !.result = text]

\* the text of a command that ran out of time is returned as its output
Expired_asoutput(p) == Returned(p, <<"t", "i", "m", "e", "d", " ", "o", "u", "t">>)

\* system.py 25-32: subprocess.run raises TimeoutExpired, which bash lets through
Expired(p) == Raised(p, "TimeoutExpired", "timed out")

\* system.py 18-32: the checks of bash, then the process is started
BashStart ==
    /\ proc.at = "called"
    /\ proc' = IF proc.command = <<>>
               THEN Raised(proc, "ValueError", "missing bash.command")
               ELSE IF IsBlocked(proc.command)
               THEN Raised(proc, "ValueError", "blocked dangerous command")
               ELSE [proc EXCEPT !.at = "running",
                                 !.spawned = Append(proc.spawned, proc.command)]
    /\ UNCHANGED <<boardVars, sessionVars>>
    /\ UNCHANGED <<pool, spinner, beats, term, workspace, disk, fileOp, clamped>>

\* the process ends within timeout_ms / 1000 seconds: system.py 33-39
ProcessExits ==
    /\ proc.at = "running"
    /\ \E stdout \in Streams, stderr \in Streams :
       \E output \in {Output(stdout, stderr)} :
          proc' = Returned(proc, clamp_text(IF output # <<>> THEN output ELSE NoOutput,
                                            max_tool_result_chars))
    /\ UNCHANGED <<boardVars, sessionVars>>
    /\ UNCHANGED <<pool, spinner, beats, term, workspace, disk, fileOp, clamped>>

\* the process is still running after timeout_ms / 1000 seconds
ProcessTimesOut ==
    /\ proc.at = "running"
    /\ proc' = [Expired(proc) EXCEPT !.exceeded = TRUE]
    /\ UNCHANGED <<boardVars, sessionVars>>
    /\ UNCHANGED <<pool, spinner, beats, term, workspace, disk, fileOp, clamped>>

InitBash ==
    /\ board = <<>>
    /\ lastOp = NoOp
    /\ pc = "closed"
    /\ cli = AgentState(<<>>, 0, <<>>)
    /\ graph = AgentState(<<>>, 0, <<>>)
    /\ base = 0
    /\ steps = 0
    /\ results = <<>>
    /\ nlines = 0
    /\ outbound = <<>>
    /\ agentState = 0
    /\ lastError = ""
    /\ lastNode = "none"
    /\ profile = "bash"
    /\ policy = NoPolicy
    /\ pool = NoPool
    /\ spinner = NoSpinner
    /\ beats = NoBeats
    /\ term = Terminal(FALSE)
    /\ workspace = DefaultWorkspace
    /\ disk = InitialDisk
    /\ fileOp = NoFileOp
    /\ \E command \in Commands, timeout_ms \in Timeouts :
          proc = [NoProc EXCEPT !.at = "called", !.command = command,
                                !.timeout_ms = timeout_ms]
    /\ clamped = NoClamp

NextBash == BashStart \/ ProcessExits \/ ProcessTimesOut

SpecBash == InitBash /\ [][NextBash]_vars

----------------------------------------------------------------------------
(* Claims about the turn loop, checked under Spec *)

Nodes == {"agent", "tools", "after_tools"}

SystemCount(messages) == Len(SelectSeq(messages, IsSystem))

\* While a stream runs, the messages the thread received with the current input
\* and since are the messages of run_cli's list.
StreamSharesMessages ==
    pc \in Nodes =>
        /\ Len(graph.messages) = base + Len(cli.messages)
        /\ \A i \in 1..Len(cli.messages) : graph.messages[base + i] = cli.messages[i]

\* C1: after every model response the tool phase is entered if and only if the
\* Assistant message just appended carries a tool call; with none the turn ends
\* (control is back at the input prompt) and no tool handler is invoked.  The
\* decision does not depend on the ToolResult messages of the history.  A tool
\* handler only ever runs in the tool phase of a response that carries tool calls.
C1_RoutingByLastMessage ==
    [][/\ (pc = "agent" /\ steps' = steps + 1) =>
            /\ Last(graph'.messages).type = "ai"
            /\ (pc' = "tools") <=> (Last(graph'.messages).tool_calls # <<>>)
            /\ (Last(graph'.messages).tool_calls = <<>>) =>
                  (pc' = "input" /\ results' = results /\ board' = board)
       /\ (results' # results /\ results' # <<>>) =>
            (pc = "tools" /\ pc' = "tools" /\ Last(graph.messages).tool_calls # <<>>)
      ]_vars

\* a turn that ended on a response without tool calls although a result of
\* export_test_cases is in the recent history
C1_Witness ==
    /\ pc = "input"
    /\ lastNode = "agent"
    /\ lastError = ""
    /\ Last(graph.messages).type = "ai"
    /\ Last(graph.messages).tool_calls = <<>>
    /\ has_exported(graph.messages)

\* C2 as claimed: a turn gives control back to the caller only when a model
\* response carries no tool call or a model invocation fails.
C2_OnlyFinalAnswerEndsTurn ==
    [][(pc \in Nodes /\ pc' = "input") =>
          \/ (Last(graph'.messages).type = "ai" /\ Last(graph'.messages).tool_calls = <<>>)
          \/ lastError' = "TransportError"
      ]_vars

\* C2 as amended: a turn gives control back to the caller only when a model
\* response carries no tool call, when a model invocation fails, or when the
\* stream has run recursion_limit (150) supersteps, which ends the turn with a
\* reported error.
C2_TurnEndsByAnswerErrorOrLimit ==
    [][(pc \in Nodes /\ pc' = "input") =>
          \/ (Last(graph'.messages).type = "ai" /\ Last(graph'.messages).tool_calls = <<>>)
          \/ lastError' = "TransportError"
          \/ (lastError' = "GraphRecursionError" /\ steps = recursion_limit)
      ]_vars

\* a turn ended by the recursion limit, every response of it carrying a tool call
C2_Witness ==
    /\ pc = "input"
    /\ lastError = "GraphRecursionError"
    /\ steps = recursion_limit
    /\ Last(graph.messages).type = "tool"
    /\ \A i \in (base + 1)..Len(graph.messages) :
          graph.messages[i].type = "ai" => graph.messages[i].tool_calls # <<>>

\* C3: the phases of a turn run in the fixed order model call, tools, reset,
\* model call: a tool phase runs only right after a model call, a reset only
\* right after a tool phase, and a model call only at the start of the turn or
\* right after a reset; what runs after a tool phase is one reset and what runs
\* after a reset is a model call.
C3_PhaseOrder ==
    [][(steps' = steps + 1) =>
          /\ lastNode' = "agent" => lastNode \in {"none", "after_tools"}
          /\ lastNode' = "tools" => lastNode = "agent"
          /\ lastNode' = "after_tools" => lastNode = "tools"
          /\ lastNode = "agent" => lastNode' = "tools"
          /\ lastNode = "tools" => lastNode' = "after_tools"
          /\ lastNode = "after_tools" => lastNode' = "agent"
      ]_vars

\* the second model call of a turn, after a tool phase and a reset
C3_Witness ==
    /\ lastNode = "agent"
    /\ steps = 4
    /\ pc = "tools"

\* C4: whenever the model is invoked, the outbound list holds exactly one System
\* message, at its head, however many System messages the stored history holds;
\* the stored history keeps them all (one per submitted line).
C4_OneSystemMessageOutbound ==
    outbound # <<>> =>
        /\ outbound[1].type = "system"
        /\ \A i \in 2..Len(outbound) : outbound[i].type # "system"
        /\ pc # "closed" => SystemCount(graph.messages) = nlines

\* an invocation on a stored history that holds two System messages
C4_Witness ==
    /\ lastNode = "agent"
    /\ pc # "closed"
    /\ outbound # <<>>
    /\ SystemCount(graph.messages) = 2
    /\ SystemCount(outbound) = 1

----------------------------------------------------------------------------
(* What the claims say about a proposed list, stated on the raw items *)

\* the id an item is proposed with: its own id, or its position when it has none
ProposedId(e, p) ==
    IF e.id.k = "str" /\ e.id.s # <<>> THEN e.id.s
    ELSE IF e.id.k = "int" /\ e.id.n # 0 THEN StrNat(e.id.n)
    ELSE StrNat(p)

HasSameId(elems) ==
    \E i, j \in 1..Len(elems) :
        i < j /\ ProposedId(elems[i], i) = ProposedId(elems[j], j)

ProposedStatus(e) == IF e.status = "" THEN "pending" ELSE Lower(e.status)

NumInProgress(elems) ==
    Cardinality({i \in 1..Len(elems) : ProposedStatus(elems[i]) = "in_progress"})

ValidProposal(elems) ==
    /\ Len(elems) <= 20
    /\ ~HasSameId(elems)
    /\ NumInProgress(elems) <= 1
    /\ \A i \in 1..Len(elems) :
          /\ elems[i].dict
          /\ Strip(elems[i].content) # <<>>
          /\ Strip(elems[i].activeForm) # <<>>
          /\ ProposedStatus(elems[i]) \in {"pending", "in_progress", "completed"}

----------------------------------------------------------------------------
(* Claims about the task board, checked under SpecBoard *)

\* C5: an update whose proposed list holds two items with the same id (an id
\* defaulted from the position included) fails, and the board's items and their
\* order are what they were before the call.
C5_DuplicateIdFailsAtomically ==
    (lastOp.called /\ lastOp.items.list /\ HasSameId(lastOp.items.elems))
        => (~lastOp.ok /\ board = lastOp.before)

\* a duplicate id, met after items were already cleaned, on a non-empty board
C5_Witness ==
    /\ lastOp.called
    /\ HasSameId(lastOp.items.elems)
    /\ lastOp.err = "Duplicate todo id"
    /\ Len(lastOp.items.elems) > 2
    /\ lastOp.before # <<>>
    /\ board = lastOp.before

\* C6: an update whose proposed list holds more than one in_progress item fails
\* and commits no item of the proposed list: the board is what it was before.
C6_TwoInProgressFailsAtomically ==
    (lastOp.called /\ lastOp.items.list /\ NumInProgress(lastOp.items.elems) > 1)
        => (~lastOp.ok /\ board = lastOp.before)

\* two in_progress items, otherwise valid, proposed to a non-empty board
C6_Witness ==
    /\ lastOp.called
    /\ NumInProgress(lastOp.items.elems) > 1
    /\ lastOp.err = "Only one task can be in_progress at a time"
    /\ lastOp.before # <<>>
    /\ board = lastOp.before

\* C7: after any sequence of updates, successful or failed, the ids on the board
\* are pairwise distinct, every content and active_form is non-empty after
\* trimming, at most one item is in_progress and the board holds at most 20 items.
C7_BoardInvariant ==
    /\ \A i, j \in 1..Len(board) : i # j => board[i].id # board[j].id
    /\ \A i \in 1..Len(board) :
          Strip(board[i].content) # <<>> /\ Strip(board[i].active_form) # <<>>
    /\ Cardinality({i \in 1..Len(board) : board[i].status = "in_progress"}) <= 1
    /\ Len(board) <= 20

\* a full board of 20 items that has just survived a failed update of 21 items
C7_Witness ==
    /\ Len(board) = 20
    /\ lastOp.called
    /\ ~lastOp.ok
    /\ Len(lastOp.items.elems) = 21
    /\ lastOp.err = "Todo list is limited to 20 items"

\* C8: a successful update replaces the whole item set: the board is exactly the
\* proposed items, in the given order, with nothing kept from the previous board.
C8_UpdateReplacesAll ==
    (lastOp.called /\ lastOp.ok) =>
        /\ Len(board) = Len(lastOp.items.elems)
        /\ \A i \in 1..Len(board) :
              /\ board[i].id = ProposedId(lastOp.items.elems[i], i)
              /\ board[i].content = Strip(lastOp.items.elems[i].content)
              /\ board[i].active_form = Strip(lastOp.items.elems[i].activeForm)
              /\ board[i].status = ProposedStatus(lastOp.items.elems[i])

\* a successful update with fewer items than the board held, and other ones
C8_Witness ==
    /\ lastOp.called
    /\ lastOp.ok
    /\ 0 < Len(board)
    /\ Len(board) < Len(lastOp.before)
    /\ board[1] # lastOp.before[1]

\* C9: for every valid proposed list (distinct ids, non-empty content and
\* active_form, at most one in_progress, at most 20 items) update followed by
\* render does not fail and the rendered text has exactly one line per item, in
\* input order.
C9_RenderOneLinePerItem ==
    (lastOp.called /\ lastOp.items.list /\ ValidProposal(lastOp.items.elems)) =>
        /\ lastOp.ok
        /\ lastOp.view = TodoManager_render(board)
        /\ lastOp.items.elems # <<>> =>
              /\ Len(SplitNL(lastOp.view)) = Len(lastOp.items.elems)
              /\ \A i \in 1..Len(lastOp.items.elems) :
                    i <= Len(SplitNL(lastOp.view)) =>
                        Contains(SplitNL(lastOp.view)[i],
                                 Strip(lastOp.items.elems[i].content)[1])

\* C10: whenever the board is empty, initially or after a successful update with
\* an empty list, render returns the single placeholder line and stats returns
\* total = 0, completed = 0, in_progress = 0.
C10_EmptyBoard ==
    board = <<>> =>
        /\ Len(SplitNL(TodoManager_render(board))) = 1
        /\ Contains(TodoManager_render(board), "No todos")
        /\ TodoManager_stats(board) = [total |-> 0, completed |-> 0, in_progress |-> 0]
        /\ (lastOp.called /\ lastOp.ok) => lastOp.view = TodoManager_render(board)

\* a board emptied by a successful update with the empty list
C10_Witness ==
    /\ lastOp.called
    /\ lastOp.ok
    /\ lastOp.items.elems = <<>>
    /\ lastOp.before # <<>>
    /\ board = <<>>

----------------------------------------------------------------------------
(* Claims about the reminders, checked under Spec *)

\* a model call was made: call_model ran its checks and called llm.invoke
ModelCalled ==
    pc = "agent" /\ pc' # "agent" /\ lastError' \notin {"GraphRecursionError", "KeyboardInterrupt"}

\* the places <<i, j>> where token tok stands in the contents of a message list
TokenPlaces(messages, tok) ==
    UNION {{<<i, j>> : j \in {k \in 1..Len(messages[i].content) :
                                 messages[i].content[k] = tok}} :
           i \in 1..Len(messages)}

Occurrences(messages, tok) == Cardinality(TokenPlaces(messages, tok))

\* tokens that only the reminders carry
TodoMark == " should be tracked with the Todo tool."
RoundsMark == " passed without Todo usage."

\* the reminders a run of the checks appended to the queue it found
Appended(pol) == SubSeq(pol.queued, Len(pol.before) + 1, Len(pol.queued))

\* how often reminder r stands in a queue
TimesIn(queue, r) == Cardinality({i \in 1..Len(queue) : queue[i] = r})

\* how often the task-tracking reminder has been spliced into a Human message of
\* the session, and how often before the last run of the checks
Injections == Occurrences(cli.messages, TodoMark)
InjectionsBefore ==
    Injections - (IF policy.at # 0 THEN TimesIn(policy.queued, TodoReminder) ELSE 0)

\* C11: a run of the reminder checks queues the task-tracking reminder exactly
\* when the counter reads 0 and no task-tracking reminder has been injected
\* earlier in the session; over a whole session the task-tracking reminder is
\* injected into a Human message at most once.
C11_TodoReminderOnce ==
    /\ policy.done =>
          (TimesIn(Appended(policy), TodoReminder) > 0
              <=> (policy.rounds = 0 /\ InjectionsBefore = 0))
    /\ Injections <= 1

\* C12: a run of the reminder checks queues the over-threshold reminder if and
\* only if the counter it reads is strictly greater than 10, and then once;
\* at 10 or below it queues none.
C12_OverThresholdIffAboveTen ==
    policy.done =>
        TimesIn(Appended(policy), RoundsReminder) = (IF policy.rounds > 10 THEN 1 ELSE 0)

\* the checks ran on a counter of 11 and queued the over-threshold reminder
C12_Witness ==
    /\ policy.done
    /\ policy.rounds = 11
    /\ Appended(policy) = <<RoundsReminder>>

IsAssistant(m) == m.type = "ai"

\* the model calls of the session that returned, and whether any ToolResult of
\* the session signalled board activity
Turns == Len(SelectSeq(cli.messages, IsAssistant))
NoBoardActivity ==
    \A i \in 1..Len(cli.messages) :
        cli.messages[i].type = "tool" =>
            /\ ~Contains(cli.messages[i].content, "Status updated")
            /\ ~Contains(cli.messages[i].content, "No todos")

\* the last run of the checks queued the over-threshold reminder once and its
\* assembly consumed it: the reminder heads the last Human message sent and the
\* queue is empty
QueuedOnceAndConsumed ==
    /\ Appended(policy) = <<RoundsReminder>>
    /\ LastHuman(outbound) # 0
    /\ Len(outbound[LastHuman(outbound)].content) >= Len(RoundsReminder)
    /\ SubSeq(outbound[LastHuman(outbound)].content, 1, Len(RoundsReminder)) = RoundsReminder
    /\ graph.pending_reminders = <<>>
    /\ cli.pending_reminders = <<>>

\* C13 as claimed: the counter starting at 0 and no ToolResult signalling board
\* activity, the checks of the 11th consecutive model call queue the
\* over-threshold reminder once and its assembly consumes it.
C13_ReminderByTurn11 ==
    (lastNode = "agent" /\ NoBoardActivity /\ Turns = 11) => QueuedOnceAndConsumed

\* C13 as amended: the counter starting at 0 and no ToolResult signalling board
\* activity, the checks of the k-th consecutive model call read k - 1; up to the
\* 11th call (counter 10) they queue no over-threshold reminder and none is
\* sent; the checks of the 12th call (counter 11) queue it once and the assembly
\* of that same call consumes it.
C13_ReminderAtTurn12 ==
    (lastNode = "agent" /\ NoBoardActivity) =>
        /\ policy.rounds = Turns - 1
        /\ Turns <= 11 =>
              /\ TimesIn(policy.queued, RoundsReminder) = 0
              /\ Occurrences(outbound, RoundsMark) = 0
        /\ Turns = 12 => QueuedOnceAndConsumed

\* the 12th model call in a row without board activity, its checks having
\* queued the over-threshold reminder
C13_Witness ==
    /\ lastNode = "agent"
    /\ NoBoardActivity
    /\ Turns = 12
    /\ policy.rounds = 11
    /\ Occurrences(outbound, RoundsMark) = 1

\* C14 as claimed: some run of the reminder checks appends both reminders, the
\* task-tracking one first.  The runs are those on a queue found empty, for
\* every value the counter can take in a turn, on the session's thread as it
\* stands and on a thread with and without an earlier task-tracking reminder.
C14_BothCanFire ==
    \E rounds \in 0..recursion_limit :
    \E messages \in {graph.messages,
                      <<SystemMessage, HumanMessage(<<"hi">>)>>,
                      <<SystemMessage, HumanMessage(TodoReminder \o <<NL, NL, "hi">>)>>} :
        QueueReminders(<<>>, messages, rounds) = <<TodoReminder, RoundsReminder>>

\* C14 as amended: the two checks are separate tests, but no run of them appends
\* both reminders: the first needs a counter of 0, the second a counter above
\* 10, and every run finds the queue empty, so a run queues at most one reminder.
C14_ChecksExclude ==
    policy.done =>
        /\ policy.before = <<>>
        /\ Len(policy.queued) <= 1
        /\ policy.queued = <<TodoReminder>> => policy.rounds = 0
        /\ policy.queued = <<RoundsReminder>> => policy.rounds > 10

\* a session in which each reminder has been queued, in different runs
C14_Witness ==
    /\ policy.done
    /\ policy.queued = <<RoundsReminder>>
    /\ Injections = 1

\* C15: reminders are consumed exactly once: the outbound view of a model call
\* holds the reminders its own run of the checks queued, each once, and no
\* reminder that an earlier call consumed.
C15_RemindersSentOnce ==
    policy.done =>
        /\ Occurrences(outbound, TodoMark) = TimesIn(policy.queued, TodoReminder)
        /\ Occurrences(outbound, RoundsMark) = TimesIn(policy.queued, RoundsReminder)

----------------------------------------------------------------------------
(* Claims about message assembly, checked under SpecCall *)

\* the reminders of a non-empty queue, in queue order, one newline between two
RECURSIVE InQueueOrder(_)
InQueueOrder(queue) ==
    IF Len(queue) = 1 THEN queue[1]
    ELSE queue[1] \o <<NL>> \o InQueueOrder(Tail(queue))

\* C16: when a model call assembles its messages with a non-empty reminder queue
\* and a Human message in the outbound view, the view sent is the view without
\* reminders except at the last Human message, whose content is the queued
\* reminders in queue order, joined by newlines, then an empty line, then the
\* content it had; every other message of the view is as it was.
C16_SpliceIntoLastHuman ==
    [][(ModelCalled /\ policy'.queued # <<>>
           /\ LastHuman(FinalMessages(graph.messages)) # 0) =>
          /\ Len(outbound') = Len(FinalMessages(graph.messages))
          /\ \A i \in 1..Len(outbound') :
                IF i = LastHuman(FinalMessages(graph.messages))
                THEN outbound'[i] =
                        [FinalMessages(graph.messages)[i] EXCEPT
                            !.content = InQueueOrder(policy'.queued) \o <<NL, NL>> \o @]
                ELSE outbound'[i] = FinalMessages(graph.messages)[i]
      ]_vars

\* a call that spliced a queue of two reminders into the later of two Human messages
C16_Witness ==
    /\ policy.done
    /\ Len(policy.queued) = 2
    /\ policy.at # 0
    /\ \E i \in 1..(policy.at - 1) : graph.messages[i].type = "human"
    /\ Contains(graph.messages[policy.at].content, NL)

----------------------------------------------------------------------------
(* Claims about the counter, checked under Spec *)

\* a model call returned its response
ModelReturned == ModelCalled /\ lastError' # "TransportError"

\* C18 as claimed: the counter goes up by one with a response that routes to
\* tools, however many tool calls it carries, the tool phase does not move it,
\* and a response that carries no tool call leaves it as it was.
C18_IncrementOnlyWithTools ==
    [][/\ ModelReturned =>
            graph'.rounds_without_todo =
                graph.rounds_without_todo
                    + (IF Last(graph'.messages).tool_calls # <<>> THEN 1 ELSE 0)
       /\ pc = "tools" => graph'.rounds_without_todo = graph.rounds_without_todo
      ]_vars

\* C18 as amended: the counter goes up by exactly one with every model call
\* that returns, whether its response carries tool calls or none and however
\* many it carries; the tool phase does not move it, and a model call that
\* fails leaves it as it was.
C18_IncrementPerModelCall ==
    [][/\ ModelReturned =>
            /\ graph'.rounds_without_todo = graph.rounds_without_todo + 1
            /\ cli'.rounds_without_todo = graph.rounds_without_todo + 1
       /\ (ModelCalled /\ ~ModelReturned) =>
            /\ graph'.rounds_without_todo = graph.rounds_without_todo
            /\ cli'.rounds_without_todo = cli.rounds_without_todo
       /\ pc = "tools" =>
            /\ graph'.rounds_without_todo = graph.rounds_without_todo
            /\ cli'.rounds_without_todo = cli.rounds_without_todo
      ]_vars

\* a turn ended by a response without tool calls, after a response of the same
\* turn that carried two; each of the two model calls moved the counter by one
C18_Witness ==
    /\ pc = "input"
    /\ lastNode = "agent"
    /\ lastError = ""
    /\ Last(graph.messages).tool_calls = <<>>
    /\ graph.rounds_without_todo = policy.rounds + 1
    /\ graph.rounds_without_todo = 2
    /\ \E i \in (base + 1)..Len(graph.messages) : Len(graph.messages[i].tool_calls) = 2

\* C19: the after-tools reset sets the counter to 0 if the content of the most
\* recent ToolResult holds the status-change confirmation or the empty-board
\* notice, and leaves it unchanged otherwise; it changes no message, and what
\* the earlier results of the batch hold does not matter.
C19_ResetLooksAtLastResult ==
    [][(pc = "after_tools" /\ steps' = steps + 1) =>
          /\ Last(graph.messages).type = "tool"
          /\ graph'.rounds_without_todo =
                (IF \/ Contains(Last(graph.messages).content, "Status updated")
                    \/ Contains(Last(graph.messages).content, "No todos")
                 THEN 0 ELSE graph.rounds_without_todo)
          /\ cli'.rounds_without_todo = graph'.rounds_without_todo
          /\ graph'.messages = graph.messages
      ]_vars

\* a reset that left a counter above 0 as it was, although the result before
\* the last one of the batch holds the empty-board notice
C19_Witness ==
    /\ lastNode = "after_tools"
    /\ graph.rounds_without_todo > 0
    /\ Len(graph.messages) >= 2
    /\ Last(graph.messages).type = "tool"
    /\ ~Contains(Last(graph.messages).content, "No todos")
    /\ ~Contains(Last(graph.messages).content, "Status updated")
    /\ graph.messages[Len(graph.messages) - 1].type = "tool"
    /\ Contains(graph.messages[Len(graph.messages) - 1].content, "No todos")

\* the position of the last response in a message list, 0 if it has none
LastAssistant(messages) ==
    IF \E i \in 1..Len(messages) : messages[i].type = "ai"
    THEN CHOOSE i \in 1..Len(messages) :
            /\ messages[i].type = "ai"
            /\ \A j \in (i + 1)..Len(messages) : messages[j].type # "ai"
    ELSE 0

\* a todo_write call of the last response succeeded: one of the ToolResults
\* that follow the response answers a todo_write call and is no error text
TodoWriteSucceeded(messages) ==
    /\ LastAssistant(messages) # 0
    /\ \E i \in (LastAssistant(messages) + 1)..Len(messages) :
       \E c \in 1..Len(messages[LastAssistant(messages)].tool_calls) :
          /\ messages[i].type = "tool"
          /\ messages[LastAssistant(messages)].tool_calls[c].id = messages[i].tool_call_id
          /\ messages[LastAssistant(messages)].tool_calls[c].name = "todo_write"
          /\ messages[i].content[1] # "Error: "

\* C20: after a tool phase in which a todo_write call succeeded, at any position
\* of the batch, the counter that the next run of the reminder checks reads is 0.
C20_TodoWriteResetsCounter ==
    [][(ModelCalled /\ lastNode = "after_tools" /\ TodoWriteSucceeded(graph.messages)) =>
          policy'.rounds = 0
      ]_vars

\* C21: the counter is reset to 0 only by board activity: whenever the reset
\* phase takes it from a positive value to 0, a todo_write call of the turn's
\* batch succeeded; a failed todo_write or the output of another tool never
\* resets it.
C21_ResetOnlyByBoardActivity ==
    [][(pc = "after_tools" /\ steps' = steps + 1
           /\ graph.rounds_without_todo > 0 /\ graph'.rounds_without_todo = 0) =>
          TodoWriteSucceeded(graph.messages)
      ]_vars


----------------------------------------------------------------------------
(* Claims about the tools node, checked under SpecTools *)

\* the handler of worker i has been entered and has not returned
InFlight(i) == pool.threads[i].at \notin {"queued", "done"}

\* the calls `calls` run one after the other from board cur: the board at the
\* end and the contents of the ToolMessages
RECURSIVE OneByOne(_, _, _)
OneByOne(calls, cur, contents) ==
    IF calls = <<>> THEN [board |-> cur, contents |-> contents]
    ELSE IF calls[1].name = "todo_write"
    THEN LET r == todo_write(calls[1].items, cur)
         IN  OneByOne(Tail(calls), r.update.items, Append(contents, r.content))
    ELSE OneByOne(Tail(calls), cur, Append(contents, <<"ok">>))

\* C23: the calls of one response run one at a time in the order requested: at
\* most one handler is in flight, a handler starts only when those before it
\* are done, and once the batch is collected there is one ToolMessage per call
\* in call order and the board and the messages are those of the calls run one
\* after the other.
C23_OneToolAtATime ==
    /\ Cardinality({i \in 1..Len(pool.threads) : InFlight(i)}) <= 1
    /\ \A i, j \in 1..Len(pool.threads) :
          (i < j /\ pool.threads[j].at # "queued") => pool.threads[i].at = "done"
    /\ pool.collected =>
          \E seq \in {OneByOne([i \in 1..Len(pool.threads) |-> pool.threads[i].call],
                               pool.before, <<>>)} :
             /\ board = seq.board
             /\ Len(results) = Len(pool.threads)
             /\ \A i \in 1..Len(results) :
                   /\ results[i].tool_call_id = pool.threads[i].call.id
                   /\ results[i].content = seq.contents[i]

----------------------------------------------------------------------------
(* Claims about errors during a turn, checked under Spec *)

\* a node of the turn raised: llm.invoke failed or the recursion limit was hit
TurnFailed ==
    pc \in Nodes /\ lastError = "" /\ lastError' \in {"TransportError", "GraphRecursionError"}

\* text old is the end of text new
EndsWith(new, old) ==
    Len(old) <= Len(new) /\ SubSeq(new, Len(new) - Len(old) + 1, Len(new)) = old

\* every message of list old stands at its place in list new, with the text it
\* had at the end of its content
Kept(old, new) ==
    /\ Len(new) = Len(old)
    /\ \A i \in 1..Len(old) :
          /\ new[i].type = old[i].type
          /\ new[i].tool_calls = old[i].tool_calls
          /\ new[i].tool_call_id = old[i].tool_call_id
          /\ EndsWith(new[i].content, old[i].content)

\* C24: an error raised during a turn is caught by the CLI loop and reported,
\* and the session goes on to read the next line; nothing is rolled back: the
\* Human message of the turn and every message appended during the turn stay in
\* run_cli's list and in the thread.
C24_TurnErrorKeepsHistory ==
    [][TurnFailed =>
          /\ pc' = "input"
          /\ lastError' # ""
          /\ Kept(cli.messages, cli'.messages)
          /\ LastHuman(cli'.messages) = LastHuman(cli.messages)
          /\ LastHuman(cli'.messages) > 0
          /\ graph'.messages = graph.messages
          /\ Len(graph'.messages) > base
      ]_vars

\* a model call failed after the turn had appended a response and its tool
\* results; they are in run_cli's list when the next line is read
C24_Witness ==
    /\ pc = "input"
    /\ lastError = "TransportError"
    /\ Len(cli.messages) > LastHuman(cli.messages)
    /\ Last(cli.messages).type = "tool"

----------------------------------------------------------------------------
(* Claims about the heartbeat, checked under SpecSpinner *)

\* heartbeat thread c has been started and has not ended
Beating(c) == beats[c].at \notin {"none", "ended"}

\* C25 as claimed: when the model-call step ends, by return or by exception, no
\* heartbeat is running: none outlives the call it decorates.
C25_NoHeartbeatOutlivesCall ==
    spinner.main = "done" => \A c \in 1..spinner.call : ~Beating(c)

\* C25 as amended: when the model-call step ends, by return or by exception,
\* every heartbeat started so far has been signalled to stop, the join has been
\* attempted and the Spinner holds no thread; the heartbeat of the call is still
\* running only if the join gave up after its second.
C25_HeartbeatSignalledAndJoined ==
    spinner.main = "done" =>
       /\ spinner.outcome \in {"returned", "raised"}
       /\ spinner.thread = 0
       /\ \A c \in 1..spinner.call : beats[c].at # "none" => beats[c].stop
       /\ term.isatty => beats[spinner.call].at # "none"
       /\ Beating(spinner.call) => spinner.timedOut

\* llm.invoke raised on a tty, and the heartbeat of the call has ended
C25_Witness ==
    /\ spinner.main = "done"
    /\ spinner.outcome = "raised"
    /\ term.isatty
    /\ beats[spinner.call].at = "ended"
    /\ ~spinner.timedOut

\* C26: no heartbeat frame is written to the terminal after the invocation has
\* returned and the response has begun to be printed.
C26_NoFrameAfterResponse ==
    \A i, j \in 1..Len(term.written) :
       (i < j /\ term.written[i] = "response") => term.written[j] # "frame"

----------------------------------------------------------------------------
(* Claims about the CLI loop, checked under Spec *)

\* C27: the session ends only at the input read (on an empty line, a quit word,
\* end of input or an interrupt there); every other line read appends one Human
\* message with the line as typed and starts one turn, and when the turn is
\* over the session is back at the input read.
C27_SessionEndsAtInputOnly ==
    [][/\ (pc # "closed" /\ pc' = "closed") => pc = "input"
       /\ (pc = "input" /\ pc' # "closed") =>
             /\ nlines' = nlines + 1
             /\ cli'.messages = Append(cli.messages, Last(cli'.messages))
             /\ Last(cli'.messages).type = "human"
             /\ ~ShouldQuit(Last(cli'.messages).content)
             /\ pc' = EntryPoint
             /\ steps' = 0
       /\ (pc \in Nodes /\ pc' \notin Nodes) => pc' = "input"
      ]_vars

----------------------------------------------------------------------------
(* Claims about safe_path, checked under SpecPath *)

\* the directory the configured root stands for
RealRoot == Resolve(workspace).segs

\* where a candidate leads: it is taken from the root unless it is anchored
Lands(candidate) ==
    Walk(IF candidate.abs THEN <<>> ELSE RealRoot, ParsePath(candidate).segs)

\* canonical path `path` is the directory `root` or below it
Within(path, root) == Len(root) <= Len(path) /\ SubSeq(path, 1, Len(root)) = root

\* C28: for every candidate path that resolves outside the workspace root, by
\* ".." segments, by a link or by being anchored outside, safe_path fails with
\* the path-escape error and returns no path.
C28_EscapingPathFails ==
    (fileOp.tool = "safe_path" /\ ~Within(Lands(fileOp.path), RealRoot)) =>
        /\ ~fileOp.ok
        /\ fileOp.err = "Path escapes workspace"
        /\ fileOp.fp = <<>>

\* the candidate "../etc" has been refused under the default root
C28_Witness ==
    /\ fileOp.tool = "safe_path"
    /\ workspace = DefaultWorkspace
    /\ fileOp.path = PurePath(FALSE, <<"..", "etc">>)
    /\ ~fileOp.ok

\* C29: for every candidate path that resolves to the workspace root or inside
\* it, safe_path succeeds and returns the canonical path, which is the root or
\* a descendant of it.
C29_InsidePathSucceeds ==
    (fileOp.tool = "safe_path" /\ Within(Lands(fileOp.path), RealRoot)) =>
        /\ fileOp.ok
        /\ fileOp.fp = Lands(fileOp.path)
        /\ Within(fileOp.fp, RealRoot)

----------------------------------------------------------------------------
(* Claims about the file tools, checked under SpecFiles *)

FileTools == {"read_file", "write_file", "edit_text"}

\* the part of storage d that is not in the directory the root stands for
Outside(d) ==
    [dirs |-> {q \in d.dirs : ~Within(q, RealRoot)},
     files |-> [q \in {f \in DOMAIN d.files : ~Within(f, RealRoot)} |-> d.files[q]]]

\* C30: read_file, write_file and edit_text resolve their path through
\* safe_path before they touch storage: what a call reads, creates or writes is
\* inside the workspace root, storage outside the root stays as it was, and a
\* call with an escaping path fails and leaves storage as it was (no directory
\* made, no file written).
C30_FileToolsStayInRoot ==
    [][fileOp'.tool \in FileTools =>
          /\ fileOp'.touched # {} => fileOp'.resolved
          /\ \A t \in fileOp'.touched : Within(t.path, RealRoot)
          /\ Outside(disk') = Outside(disk)
          /\ ~Within(Lands(fileOp'.path), RealRoot) =>
                /\ ~fileOp'.ok
                /\ fileOp'.err = "Path escapes workspace"
                /\ fileOp'.touched = {}
                /\ disk' = disk
      ]_vars

\* write_file("/etc/a") has been refused after write_file("b/a") had made the
\* directory /ws/b
C30_Witness ==
    /\ fileOp.tool = "write_file"
    /\ fileOp.path = PurePath(TRUE, <<"etc", "a">>)
    /\ ~fileOp.ok
    /\ <<"ws", "b">> \in disk.dirs
    /\ disk.files[<<"etc", "a">>] = <<"s">>

----------------------------------------------------------------------------
(* Claims about clamp_text, checked under SpecClamp *)

\* the number a sequence of decimal digits writes
DigitValue(c) ==
    CASE c = "0" -> 0 [] c = "1" -> 1 [] c = "2" -> 2 [] c = "3" -> 3 [] c = "4" -> 4
      [] c = "5" -> 5 [] c = "6" -> 6 [] c = "7" -> 7 [] c = "8" -> 8 [] c = "9" -> 9
      [] OTHER -> -1

RECURSIVE NumberOf(_)
NumberOf(digits) ==
    IF digits = <<>> THEN 0
    ELSE 10 * NumberOf(SubSeq(digits, 1, Len(digits) - 1)) + DigitValue(digits[Len(digits)])

\* the characters of a text from position `from` on
Rest(text, from) == SubSeq(text, from, Len(text))

\* is `note` a truncation note naming n characters: a blank line, then
\* "...<truncated ", n in decimal, " chars>"
NamesTruncated(note, n) ==
    /\ Len(note) > 23
    /\ SubSeq(note, 1, 16) =
         <<"\n", "\n", ".", ".", ".", "<", "t", "r", "u", "n", "c", "a", "t", "e", "d", " ">>
    /\ Rest(note, Len(note) - 6) = <<" ", "c", "h", "a", "r", "s", ">">>
    /\ \A i \in 17..(Len(note) - 7) : DigitValue(note[i]) >= 0
    /\ NumberOf(SubSeq(note, 17, Len(note) - 7)) = n

\* C33: once clamp_text has returned: a text of at most limit characters is
\* returned unchanged; otherwise the result begins with the first limit
\* characters of the text, and what follows them is the note naming
\* len(text) - limit truncated characters.
C33_ClampContract ==
    clamped.called =>
        IF Len(clamped.text) <= clamped.limit
        THEN clamped.result = clamped.text
        ELSE /\ SubSeq(clamped.result, 1, clamped.limit)
                  = SubSeq(clamped.text, 1, clamped.limit)
             /\ NamesTruncated(Rest(clamped.result, clamped.limit + 1),
                               Len(clamped.text) - clamped.limit)

\* a text longer than a limit above zero has been clamped
C33_Witness ==
    /\ clamped.called
    /\ clamped.limit > 0
    /\ Len(clamped.text) > clamped.limit + 1

\* C34: the text clamp_text returns has at most limit characters.
C34_ResultWithinLimit ==
    clamped.called => Len(clamped.result) <= clamped.limit

----------------------------------------------------------------------------
(* Claims about bash, checked under SpecBash *)

\* the command holds the text somewhere
HoldsText(command, text) ==
    \E i \in 1..Len(command), j \in 1..Len(command) : SubSeq(command, i, j) = text

Denylisted(command) == \E text \in Denylist : HoldsText(command, text)

\* C31: no process is ever started for a command that holds a denylisted text,
\* and the call made with such a command ends with the blocked-command error.
C31_DenylistedNeverSpawned ==
    /\ \A i \in 1..Len(proc.spawned) : ~Denylisted(proc.spawned[i])
    /\ (proc.at \in {"running", "done"} /\ Denylisted(proc.command)) =>
          /\ proc.at = "done"
          /\ ~proc.ok
          /\ proc.err = "blocked dangerous command"
          /\ proc.spawned = <<>>

\* a call was refused for a command with a denylisted text after its beginning
C31_Witness ==
    /\ proc.at = "done"
    /\ proc.err = "blocked dangerous command"
    /\ Head(proc.command) = "ls"
    /\ proc.spawned = <<>>

\* C32: a call whose process outran its timeout ends by raising, not by
\* returning a text, and what it raises is raised by no call that ended otherwise.
C32_TimeoutIsItsOwnError ==
    proc.at = "done" =>
        /\ proc.exceeded => (~proc.ok /\ proc.result = <<>> /\ proc.exc # "")
        /\ (~proc.exceeded /\ ~proc.ok) => proc.exc # Expired(NoProc).exc
        /\ (~proc.exceeded /\ ~proc.ok) => proc.err # Expired(NoProc).err

\* a process was started and outran its timeout
C32_Witness ==
    /\ proc.at = "done"
    /\ proc.exceeded
    /\ Len(proc.spawned) = 1

----------------------------------------------------------------------------
(* Claims about the stored history, checked under Spec *)

TypedLines == Lines(profile)

IsHuman(m) == m.type = "human"

\* C35: the content of every HumanMessage stored, in run_cli's list and in the
\* thread, is a line the user typed: no model call changes it.
C35_StoredHumanStaysTyped ==
    /\ \A i \in 1..Len(cli.messages) :
          IsHuman(cli.messages[i]) => cli.messages[i].content \in TypedLines
    /\ \A i \in 1..Len(graph.messages) :
          IsHuman(graph.messages[i]) => graph.messages[i].content \in TypedLines

\* how many of the messages are HumanMessages
HumanCount(messages) == Len(SelectSeq(messages, IsHuman))

\* C36: the list given to the model holds one HumanMessage for each line the
\* user entered so far, and no more: earlier history is not repeated.
C36_EachInputOnce ==
    HumanCount(outbound) <= nlines

----------------------------------------------------------------------------
(* Claims about the statuses on the board, checked under SpecBoard *)

AllowedStatuses == {"pending", "in_progress", "completed"}

\* the proposed item names a status that, in lower case, is not an allowed one
NamesUnknownStatus(e) == e.status # "" /\ Lower(e.status) \notin AllowedStatuses

\* C37: every item on the board has one of the three statuses; an update with
\* an item whose status, in lower case, is none of them fails and leaves the
\* board as it was; an item proposed without a status is stored as pending.
C37_StatusesOnBoard ==
    /\ \A i \in 1..Len(board) : board[i].status \in AllowedStatuses
    /\ (/\ lastOp.called
        /\ lastOp.items.list
        /\ \E i \in 1..Len(lastOp.items.elems) : NamesUnknownStatus(lastOp.items.elems[i]))
          => (~lastOp.ok /\ board = lastOp.before)
    /\ (lastOp.called /\ lastOp.ok) =>
          \A i \in 1..Len(lastOp.items.elems) :
              lastOp.items.elems[i].status = "" => board[i].status = "pending"

\* an update naming an unknown status was refused on a board that holds an item
\* stored as pending though proposed without a status
C37_Witness ==
    /\ lastOp.called
    /\ ~lastOp.ok
    /\ \E i \in 1..Len(lastOp.items.elems) : NamesUnknownStatus(lastOp.items.elems[i])
    /\ lastOp.before # <<>>
    /\ board = lastOp.before
    /\ \E i \in 1..Len(board) : board[i].status = "pending"

----------------------------------------------------------------------------
(* Claims about the reset after a board update, checked under Spec *)

\* the most recent message is the ToolResult of a todo_write call of the last
\* response, and the call succeeded
LastResultOfTodoWrite(messages) ==
    /\ LastAssistant(messages) # 0
    /\ LastAssistant(messages) < Len(messages)
    /\ Last(messages).type = "tool"
    /\ Last(messages).content[1] # "Error: "
    /\ \E c \in 1..Len(messages[LastAssistant(messages)].tool_calls) :
          /\ messages[LastAssistant(messages)].tool_calls[c].id = Last(messages).tool_call_id
          /\ messages[LastAssistant(messages)].tool_calls[c].name = "todo_write"

\* C38: when the most recent ToolResult of the batch is that of a successful
\* todo_write, its text holds the status-change confirmation (board not empty)
\* or the empty-board notice (board empty), the reset sets the counter to 0, and
\* the next run of the reminder checks reads 0.
C38_LastTodoWriteResets ==
    [][/\ (pc = "after_tools" /\ steps' = steps + 1 /\ LastResultOfTodoWrite(graph.messages)) =>
            /\ board # <<>> => Contains(Last(graph.messages).content, "Status updated")
            /\ board = <<>> => Contains(Last(graph.messages).content, "No todos")
            /\ graph'.rounds_without_todo = 0
       /\ (ModelCalled /\ lastNode = "after_tools" /\ LastResultOfTodoWrite(graph.messages)) =>
            /\ graph.rounds_without_todo = 0
            /\ policy'.rounds = 0
      ]_vars

\* the reset has run after a batch of two calls whose last one emptied a board
\* that held items, and the counter is 0
C38_Witness ==
    /\ pc = "agent"
    /\ lastNode = "after_tools"
    /\ LastResultOfTodoWrite(graph.messages)
    /\ Len(graph.messages[LastAssistant(graph.messages)].tool_calls) = 2
    /\ lastOp.before # <<>>
    /\ board = <<>>
    /\ graph.rounds_without_todo = 0

----------------------------------------------------------------------------
(* Claims about failing edits, checked under SpecFiles *)

\* the arguments are among those the claim lists as failing
ListedAsFailing(args) ==
    \/ args.action = "replace" /\ args.find = <<>>
    \/ /\ args.action = "delete_range"
       /\ \/ ~args.range_start.some
          \/ ~args.range_end.some
          \/ args.range_end.n < args.range_start.n
    \/ args.action \notin {"replace", "insert", "delete_range"}

\* C39: an edit_text call that fails leaves storage, the target file included,
\* as it was; and a call fails when it is a replace without find, a
\* delete_range with a missing bound or with range_end < range_start, an
\* unsupported action, or when its path escapes the root or names no file.
C39_FailedEditWritesNothing ==
    [][fileOp'.tool = "edit_text" =>
          /\ ~fileOp'.ok =>
                /\ disk' = disk
                /\ \A t \in fileOp'.touched : t.kind = "read"
          /\ (\/ ListedAsFailing(fileOp'.args)
              \/ ~Within(Lands(fileOp'.path), RealRoot)
              \/ Lands(fileOp'.path) \notin DOMAIN disk.files) => ~fileOp'.ok
      ]_vars

\* an edit with an invalid range was refused on a file that an earlier edit
\* had changed, and the file holds what that edit left
C39_Witness ==
    /\ fileOp.tool = "edit_text"
    /\ ~fileOp.ok
    /\ fileOp.err = "edit_text.delete_range invalid range"
    /\ fileOp.resolved
    /\ fileOp.fp \in DOMAIN disk.files
    /\ disk.files[fileOp.fp] # InitialDisk.files[<<"ws", "a">>]
    /\ disk.files[fileOp.fp] = fileOp.text

----------------------------------------------------------------------------
(* Claims about the end of a turn, checked under SpecTurn *)

\* the supersteps one app.stream call may run (cli.py 49)
StepBound == 150

\* C40: when every model invocation and tool execution returns, a turn runs at
\* most StepBound model-call, tool and reset steps, and a turn in progress
\* always comes to its end with run_cli back at the input prompt, whether by
\* an answer, a reported model failure or the reported recursion error.
C40_TurnReturnsToPrompt ==
    /\ [](steps <= StepBound)
    /\ (pc \in Nodes) ~> (pc = "input")

\* a turn in which every response asked for a tool has been ended at the
\* prompt by the recursion error, after StepBound steps and 50 model calls
C40_Witness ==
    /\ pc = "input"
    /\ lastError = "GraphRecursionError"
    /\ steps = StepBound
    /\ Len(SelectSeq(graph.messages, LAMBDA m : m.type = "ai")) = 50

=============================================================================
